---- MODULE Spec2Model ----
(***************************************************************************)
(* A model of libsolidity/Compiler.cpp: the code generator that lowers a   *)
(* contract's AST to two assemblies (creation and runtime).  The Compiler  *)
(* object's fields are the variables; each visitor, and each segment of a  *)
(* visitor between two calls of accept(), is an action; the visitors' call *)
(* stack is the sequence `frames'.  The emitted assembly items are kept in *)
(* m_context.asm, and a small stack machine runs the emitted items.        *)
(***************************************************************************)
EXTENDS Integers, Sequences, FiniteSets, TLC

\* ------------------------------------------------------------------ bounds
MaxArgs == 3
MaxRets == 3
MaxLocals == 2
MaxDepth == 2
MaxModifiers == 2

\* Calls of compileContract in a row.
MaxRuns == 2

\* Contracts in a linearized list of base contracts.
MaxBases == 3

\* Selectors of interface functions: 1..MaxSelectors.
MaxSelectors == 2

\* Types in a list of parameters given to appendCalldataUnpacker.
MaxParameters == 3
WordBits == 10

VARIABLES
    m_context,                \* the CompilerContext being appended to
    m_runtimeContext,         \* the other CompilerContext of the Compiler object
    m_returnTag,
    m_breakTags,
    m_continueTags,
    m_stackCleanupForReturn,
    m_currentFunction,
    m_modifierDepth,
    stackLayout,              \* the local vector<int> of visit(FunctionDefinition)
    frames,                   \* the visitors' call stack, innermost last
    failed,                   \* a solAssert has fired
    contract,                 \* the argument of compileContract
    pc,                       \* where compileContract is
    locals,                   \* the local variables of compileContract and its callees
    compiled,                 \* the assemblies each call of compileContract left
    evm                       \* the machine that runs emitted items

vars == << m_context, m_runtimeContext, m_returnTag, m_breakTags, m_continueTags,
           m_stackCleanupForReturn, m_currentFunction, m_modifierDepth,
           stackLayout, frames, failed, contract, pc, locals, compiled, evm >>

\* ------------------------------------------------------- sequence helpers
Last(s) == s[Len(s)]

Front(s) == SubSeq(s, 1, Len(s) - 1)

RECURSIVE SumSeq(_)
SumSeq(s) == IF s = << >> THEN 0 ELSE s[1] + SumSeq(Tail(s))

Repeat(x, n) == [i \in 1..n |-> x]

\* --------------------------------------------------------- assembly items
\* An item is an opcode with an argument.  EXPR stands for the items the
\* ExpressionCompiler emits for one expression (net effect: arg slots pushed;
\* id names the expression), MOVE for CompilerUtils::moveToStackVariable (arg
\* slots consumed).
ItemOf(o, a, i) == [op |-> o, arg |-> a, id |-> i]

Item(o, a) == ItemOf(o, a, 0)

Op(o) == Item(o, 0)

Push(v) == Item("PUSH", v)

PushTag(t) == Item("PUSHTAG", t)

Tag(t) == Item("TAG", t)

swapInstruction(n) == Item("SWAP", n)

dupInstruction(n) == Item("DUP", n)

\* The change of the operand stack height an item makes.
Deposit(it) ==
    CASE it.op \in {"PUSH", "PUSHTAG", "DUP", "PUSHSUB", "PUSHSUBSIZE", "PROGRAMSIZE"} -> 1
      [] it.op \in {"POP", "JUMP", "ADD", "MUL", "DIV", "EQ"} -> -1
      [] it.op \in {"JUMPI", "RETURN", "MSTORE"} -> -2
      [] it.op = "CODECOPY" -> -3
      [] it.op = "EXPR" -> it.arg
      [] it.op = "MOVE" -> 0 - it.arg
      [] OTHER -> 0

RECURSIVE SumDeposit(_)
SumDeposit(items) ==
    IF items = << >> THEN 0 ELSE Deposit(items[1]) + SumDeposit(Tail(items))

\* ------------------------------------------------------- CompilerContext
EmptyContext ==
    [asm |-> << >>, deposit |-> 0, usedTags |-> 0,
     functionEntryLabels |-> << >>, functionsWithCode |-> {},
     inheritanceHierarchy |-> << >>, stateVariables |-> << >>, subs |-> << >>]

\* m_context << item << item ...
Emit(ctx, items) ==
    [ctx EXCEPT !.asm = @ \o items, !.deposit = @ + SumDeposit(items)]

\* The tag newTag() hands out, and the context after it.
NextTag(ctx) == ctx.usedTags + 1

TakeTag(ctx) == [ctx EXCEPT !.usedTags = @ + 1]

adjustStackOffset(ctx, n) == [ctx EXCEPT !.deposit = @ + n]

appendJumpTo(ctx, t) == Emit(ctx, << PushTag(t), Op("JUMP") >>)

appendConditionalJumpTo(ctx, t) == Emit(ctx, << PushTag(t), Op("JUMPI") >>)

\* getFunctionEntryLabel: the declaration's tag, handed out on first request.
HasLabel(ctx, d) == d \in DOMAIN ctx.functionEntryLabels

RequestLabel(ctx, d) ==
    IF HasLabel(ctx, d) THEN ctx
    ELSE [TakeTag(ctx) EXCEPT !.functionEntryLabels = @ @@ (d :> NextTag(ctx))]

getFunctionEntryLabel(ctx, d) == RequestLabel(ctx, d).functionEntryLabels[d]

\* startFunction: the declaration has code from now on, the height restarts
\* at 0 and the entry label is placed.
startFunction(ctx, d) ==
    LET c1 == RequestLabel(ctx, d)
        c2 == [c1 EXCEPT !.functionsWithCode = @ \cup {d}, !.deposit = 0]
    IN  Emit(c2, << Tag(c1.functionEntryLabels[d]) >>)

getFunctionsWithoutCode(ctx) ==
    { d \in DOMAIN ctx.functionEntryLabels : d \notin ctx.functionsWithCode }

\* The ExpressionCompiler asks for the entry label of every function the
\* expression calls.
RECURSIVE RequestLabels(_, _)
RequestLabels(ctx, ds) ==
    IF ds = << >> THEN ctx ELSE RequestLabels(RequestLabel(ctx, ds[1]), Tail(ds))

\* compileExpression with a target type of `size' slots (the black box).
compileExpression(ctx, size) == Emit(ctx, << Item("EXPR", size) >>)

\* compileExpression of expression id, which calls the functions `calls'.
compileExpressionOf(ctx, size, id, calls) ==
    Emit(RequestLabels(ctx, calls), << ItemOf("EXPR", size, id) >>)

moveToStackVariable(ctx, size) == Emit(ctx, << Item("MOVE", size) >>)

popStackElement(ctx, size) == Emit(ctx, Repeat(Op("POP"), size))

addAndInitializeVariable(ctx, size) == Emit(ctx, Repeat(Push(0), size))

\* The check of a StackHeightChecker made at a height of `height'.
StackHeightCheck(ctx, height) == ctx.deposit = height

\* -------------------------------------------------------------------- AST
\* Statements are records with a kind; NoStmt stands for a null pointer.
NoStmt == [kind |-> "None"]

Continue == [kind |-> "Continue"]

Break == [kind |-> "Break"]

Return(e) == [kind |-> "Return", hasExpression |-> e]

VariableDeclarationStatement(e) ==
    [kind |-> "VariableDeclarationStatement", hasExpression |-> e]

\* An expression statement whose expression calls the functions `calls'.
CallStatement(calls) == [kind |-> "ExpressionStatement", calls |-> calls]

ExpressionStatement == CallStatement(<< >>)

PlaceholderStatement == [kind |-> "PlaceholderStatement"]

IfStatement(t, f) == [kind |-> "IfStatement", trueStatement |-> t, falseStatement |-> f]

WhileStatement(b) == [kind |-> "WhileStatement", body |-> b]

ForStatement(i, c, l, b) ==
    [kind |-> "ForStatement", initializationExpression |-> i, hasCondition |-> c,
     loopExpression |-> l, body |-> b]

Block(ss) == [kind |-> "Block", statements |-> ss]

\* A modifier definition: the stack sizes of its parameters and of its local
\* variables, and its body.
ModifierDefinition(ps, ls, b) == [parameters |-> ps, localVariables |-> ls, body |-> b]

\* A function definition; the modifiers are the definitions its invocations
\* name, in order.
FunctionDefinition(n, ps, rs, ls, ms, b) ==
    [kind |-> "FunctionDefinition", name |-> n, parameters |-> ps,
     returnParameters |-> rs, localVariables |-> ls, modifiers |-> ms, body |-> b]

\* A contract definition: its state variables (an id, and whether it has an
\* initial value), its constructor (a declaration's name, "" for none) and its
\* inheritance specifiers (the base named, the ids of the argument expressions).
StateVariable(i, v) == [id |-> i, hasValue |-> v]

InheritanceSpecifier(b, as) == [base |-> b, arguments |-> as]

ContractDefinition(i, vs, c, bs) ==
    [id |-> i, stateVariables |-> vs, constructor |-> c, baseContracts |-> bs]

\* The state variable whose accessor is a declaration of the contract.
VariableDeclaration(n) == [kind |-> "VariableDeclaration", name |-> n]

\* What compileContract is given: the linearized base contracts (the contract
\* itself first), the interface functions by selector, the fallback function
\* ("" for none), the declarations by name and the addresses they are at.
Contract(bs, ifs, fb, ds, ad) ==
    [linearizedBaseContracts |-> bs, interfaceFunctions |-> ifs, fallbackFunction |-> fb,
     declarations |-> ds, address |-> ad]

NoContract == Contract(<< >>, << >>, "", << >>, << >>)

\* No call of compileContract is in progress.
NoLocals ==
    [functions |-> {}, pending |-> {}, baseArguments |-> << >>, i |-> 0,
     callDataUnpackerEntryPoints |-> << >>, returnTag |-> 0, typeParameters |-> << >>]

\* ------------------------------------------------------------ call stack
\* A frame is a visitor in progress: where it is (pc), its node, the height
\* its StackHeightChecker recorded, and two locals (tags or a count).
Frame(p, n, h, a, b) == [pc |-> p, node |-> n, height |-> h, t1 |-> a, t2 |-> b]

VisitFrame(n) == Frame("visit", n, 0, 0, 0)

Top == Last(frames)

Visiting(k) == frames # << >> /\ ~failed /\ Top.pc = "visit" /\ Top.node.kind = k

At(p) == frames # << >> /\ ~failed /\ Top.pc = p

\* The visitor on top returns to its caller.
Returned == Front(frames)

\* The visitor on top goes on as frame f and calls accept() on node n.
Calling(f, n) == Front(frames) \o << f, VisitFrame(n) >>

\* The end of a visitor that holds a StackHeightChecker: check() and return,
\* or the assertion fires and the compilation is abandoned.
CheckAndReturn(ctx, height) ==
    IF StackHeightCheck(ctx, height)
    THEN frames' = Returned /\ failed' = FALSE
    ELSE frames' = << >> /\ failed' = TRUE

\* ------------------------------------------- visit(FunctionDefinition)
fnState == << m_returnTag, m_currentFunction >>

tagStacks == << m_breakTags, m_continueTags >>

modState == << m_stackCleanupForReturn, m_modifierDepth >>

others == << m_runtimeContext, contract, pc, locals, compiled, evm >>

\* Lines 335-340: the target position of every slot, -1 for a slot to drop.
EpilogueLayout(argumentsSize, returnValuesSize, localVariablesSize) ==
    << returnValuesSize >> \o Repeat(-1, argumentsSize)
        \o [i \in 1..returnValuesSize |-> i - 1] \o Repeat(-1, localVariablesSize)

\* A slip in line 350: the distance counted from the slot above the last one.
EpilogueSwapDistance_OffByOne(layout) == Len(layout) - Last(layout)

\* Line 350: the SWAP that brings the last slot to its target.
EpilogueSwapDistance(layout) == Len(layout) - Last(layout) - 1

\* Line 351: swap(stackLayout[stackLayout.back()], stackLayout.back()).
EpilogueSwapped(layout) ==
    [layout EXCEPT ![Last(layout) + 1] = Last(layout), ![Len(layout)] = layout[Last(layout) + 1]]

\* Lines 293-321: the prologue, up to the call of appendModifierOrFunctionCode.
VisitFunctionDefinition ==
    /\ Visiting("FunctionDefinition")
    /\ LET f == Top.node
           c1 == startFunction(m_context, f.name)
           c2 == adjustStackOffset(TakeTag(c1), SumSeq(f.parameters))
           c3 == addAndInitializeVariable(c2, SumSeq(f.returnParameters))
           c4 == addAndInitializeVariable(c3, SumSeq(f.localVariables))
       IN  /\ m_context' = c4
           /\ m_returnTag' = NextTag(c1)
           /\ m_currentFunction' = f
           /\ frames' = Front(frames) \o << Frame("fn_body_done", f, 0, 0, 0),
                                            Frame("appendModifierOrFunctionCode", f, 0, 0, 0) >>
    /\ m_breakTags' = << >>
    /\ m_continueTags' = << >>
    /\ m_stackCleanupForReturn' = 0
    /\ m_modifierDepth' = 0
    /\ UNCHANGED << stackLayout, failed, others >>

\* Lines 323-340: the return tag and the layout the epilogue starts from.
FunctionDefinition_AfterBody ==
    /\ At("fn_body_done")
    /\ m_context' = Emit(m_context, << Tag(m_returnTag) >>)
    /\ stackLayout' = EpilogueLayout(SumSeq(Top.node.parameters),
                                     SumSeq(Top.node.returnParameters),
                                     SumSeq(Top.node.localVariables))
    /\ frames' = Front(frames) \o << [Top EXCEPT !.pc = "fn_epilogue"] >>
    /\ UNCHANGED << fnState, tagStacks, modState, failed, others >>

\* Lines 342-352: one turn of the epilogue loop.
FunctionDefinition_EpilogueStep ==
    /\ At("fn_epilogue")
    /\ stackLayout # << >>
    /\ Last(stackLayout) # Len(stackLayout) - 1
    /\ IF Last(stackLayout) < 0
       THEN /\ m_context' = Emit(m_context, << Op("POP") >>)
            /\ stackLayout' = Front(stackLayout)
       ELSE /\ m_context' = Emit(m_context,
                                 << swapInstruction(EpilogueSwapDistance(stackLayout)) >>)
            /\ stackLayout' = EpilogueSwapped(stackLayout)
    /\ UNCHANGED << fnState, tagStacks, modState, frames, failed, others >>

\* Lines 342, 355-357: the loop ends, the JUMP, the visitor returns.
FunctionDefinition_Jump ==
    /\ At("fn_epilogue")
    /\ stackLayout # << >>
    /\ Last(stackLayout) = Len(stackLayout) - 1
    /\ m_context' = Emit(m_context, << Op("JUMP") >>)
    /\ frames' = Returned
    /\ UNCHANGED << fnState, tagStacks, modState, stackLayout, failed, others >>

\* ---------------------------------------- appendModifierOrFunctionCode
\* A slip in lines 530-531: the local variables left out of the surplus.
StackSurplus_ParametersOnly(modifier) == SumSeq(modifier.parameters)

\* Lines 530-531.
StackSurplus(modifier) == SumSeq(modifier.parameters) + SumSeq(modifier.localVariables)

\* Lines 512-534: the body of the function, or the set-up of the modifier at
\* m_modifierDepth and its body.
AppendModifierOrFunctionCode ==
    /\ At("appendModifierOrFunctionCode")
    /\ IF m_modifierDepth >= Len(m_currentFunction.modifiers)
       THEN /\ frames' = Front(frames) \o << VisitFrame(m_currentFunction.body) >>
            /\ UNCHANGED << m_context, m_stackCleanupForReturn >>
       ELSE LET modifier == m_currentFunction.modifiers[m_modifierDepth + 1]
                c1 == Emit(m_context,
                           [i \in 1..Len(modifier.parameters) |->
                               Item("EXPR", modifier.parameters[i])])
                c2 == addAndInitializeVariable(c1, SumSeq(modifier.localVariables))
            IN  /\ m_context' = c2
                /\ m_stackCleanupForReturn' = m_stackCleanupForReturn + StackSurplus(modifier)
                /\ frames' = Calling(Frame("modifier_body_done", Top.node, 0,
                                           StackSurplus(modifier), 0),
                                     modifier.body)
    /\ UNCHANGED << fnState, tagStacks, m_modifierDepth, stackLayout, failed, others >>

\* Lines 536-538: the modifier's slots are popped.
AppendModifierOrFunctionCode_AfterBody ==
    /\ At("modifier_body_done")
    /\ m_context' = Emit(m_context, Repeat(Op("POP"), Top.t1))
    /\ m_stackCleanupForReturn' = m_stackCleanupForReturn - Top.t1
    /\ frames' = Returned
    /\ UNCHANGED << fnState, tagStacks, m_modifierDepth, stackLayout, failed, others >>

\* ----------------------------------------------------- statement visitors
\* The stack size of the type of a statement's expression and of a declared
\* variable (a condition is a bool: one slot).
ValueSize == 1

\* Block has no visitor of its own: accept() visits the statements in order.
VisitBlock ==
    /\ Visiting("Block")
    /\ IF Top.t1 < Len(Top.node.statements)
       THEN frames' = Calling([Top EXCEPT !.t1 = @ + 1], Top.node.statements[Top.t1 + 1])
       ELSE frames' = Returned
    /\ UNCHANGED << m_context, fnState, tagStacks, modState, stackLayout, failed, others >>

\* Lines 368-370 of visit(IfStatement): the jump over the true branch, the
\* true tag, and the call on the true statement.
IfTrueBranch(ctx, height, trueTag) ==
    LET endTag == NextTag(ctx)
        c1 == appendJumpTo(TakeTag(ctx), endTag)
    IN  /\ m_context' = Emit(c1, << Tag(trueTag) >>)
        /\ frames' = Calling(Frame("if_true_done", Top.node, height, trueTag, endTag),
                             Top.node.trueStatement)

\* Lines 362-367.
VisitIfStatement ==
    /\ Visiting("IfStatement")
    /\ LET height == m_context.deposit
           c1 == compileExpression(m_context, 1)
           trueTag == NextTag(c1)
           c2 == appendConditionalJumpTo(TakeTag(c1), trueTag)
       IN  IF Top.node.falseStatement # NoStmt
           THEN /\ m_context' = c2
                /\ frames' = Calling(Frame("if_false_done", Top.node, height, trueTag, 0),
                                     Top.node.falseStatement)
           ELSE IfTrueBranch(c2, height, trueTag)
    /\ UNCHANGED << fnState, tagStacks, modState, stackLayout, failed, others >>

IfStatement_AfterFalse ==
    /\ At("if_false_done")
    /\ IfTrueBranch(m_context, Top.height, Top.t1)
    /\ UNCHANGED << fnState, tagStacks, modState, stackLayout, failed, others >>

\* Lines 371-374.
IfStatement_End ==
    /\ At("if_true_done")
    /\ m_context' = Emit(m_context, << Tag(Top.t2) >>)
    /\ CheckAndReturn(m_context', Top.height)
    /\ UNCHANGED << fnState, tagStacks, modState, stackLayout, others >>

\* Lines 386-389 and 415-423: the loop start tag and the exit test.
LoopHead(ctx, loopStart, loopEnd, hasCondition) ==
    LET c1 == Emit(ctx, << Tag(loopStart) >>)
    IN  IF hasCondition
        THEN appendConditionalJumpTo(
                 Emit(compileExpression(c1, 1), << Op("ISZERO") >>), loopEnd)
        ELSE c1

\* Lines 393-394 and 431-432: the jump back and the loop end tag.
LoopTail(ctx, loopStart, loopEnd) == Emit(appendJumpTo(ctx, loopStart), << Tag(loopEnd) >>)

\* Lines 379-391.
VisitWhileStatement ==
    /\ Visiting("WhileStatement")
    /\ LET loopStart == NextTag(m_context)
           loopEnd == loopStart + 1
           c1 == TakeTag(TakeTag(m_context))
       IN  /\ m_continueTags' = m_continueTags \o << loopStart >>
           /\ m_breakTags' = m_breakTags \o << loopEnd >>
           /\ m_context' = LoopHead(c1, loopStart, loopEnd, TRUE)
           /\ frames' = Calling(Frame("while_body_done", Top.node, m_context.deposit,
                                      loopStart, loopEnd),
                                Top.node.body)
    /\ UNCHANGED << fnState, modState, stackLayout, failed, others >>

\* A slip in lines 393-400: m_breakTags.pop_back() left out.
WhileStatement_End_BreakTagKept ==
    /\ At("while_body_done")
    /\ m_context' = LoopTail(m_context, Top.t1, Top.t2)
    /\ m_continueTags' = Front(m_continueTags)
    /\ m_breakTags' = m_breakTags
    /\ CheckAndReturn(m_context', Top.height)
    /\ UNCHANGED << fnState, modState, stackLayout, others >>

\* Lines 393-400.
WhileStatement_End ==
    /\ At("while_body_done")
    /\ m_context' = LoopTail(m_context, Top.t1, Top.t2)
    /\ m_continueTags' = Front(m_continueTags)
    /\ m_breakTags' = Front(m_breakTags)
    /\ CheckAndReturn(m_context', Top.height)
    /\ UNCHANGED << fnState, modState, stackLayout, others >>

\* Lines 415-425 of visit(ForStatement).
ForBody(ctx, height, loopStart, loopEnd) ==
    /\ m_context' = LoopHead(ctx, loopStart, loopEnd, Top.node.hasCondition)
    /\ frames' = Calling(Frame("for_body_done", Top.node, height, loopStart, loopEnd),
                         Top.node.body)

\* Lines 431-438 of visit(ForStatement).
ForEnd ==
    /\ m_context' = LoopTail(m_context, Top.t1, Top.t2)
    /\ m_continueTags' = Front(m_continueTags)
    /\ m_breakTags' = Front(m_breakTags)
    /\ CheckAndReturn(m_context', Top.height)

\* Lines 405-413.
VisitForStatement ==
    /\ Visiting("ForStatement")
    /\ LET loopStart == NextTag(m_context)
           loopEnd == loopStart + 1
           c1 == TakeTag(TakeTag(m_context))
       IN  /\ m_continueTags' = m_continueTags \o << loopStart >>
           /\ m_breakTags' = m_breakTags \o << loopEnd >>
           /\ IF Top.node.initializationExpression # NoStmt
              THEN /\ m_context' = c1
                   /\ frames' = Calling(Frame("for_init_done", Top.node, m_context.deposit,
                                              loopStart, loopEnd),
                                        Top.node.initializationExpression)
              ELSE ForBody(c1, m_context.deposit, loopStart, loopEnd)
    /\ UNCHANGED << fnState, modState, stackLayout, failed, others >>

ForStatement_AfterInit ==
    /\ At("for_init_done")
    /\ ForBody(m_context, Top.height, Top.t1, Top.t2)
    /\ UNCHANGED << fnState, tagStacks, modState, stackLayout, failed, others >>

\* Lines 427-438: the loop expression when there is one, else the end.
ForStatement_AfterBody ==
    /\ At("for_body_done")
    /\ IF Top.node.loopExpression # NoStmt
       THEN /\ frames' = Calling([Top EXCEPT !.pc = "for_loop_done"], Top.node.loopExpression)
            /\ UNCHANGED << m_context, tagStacks, failed >>
       ELSE ForEnd
    /\ UNCHANGED << fnState, modState, stackLayout, others >>

ForStatement_AfterLoopExpression ==
    /\ At("for_loop_done")
    /\ ForEnd
    /\ UNCHANGED << fnState, modState, stackLayout, others >>

\* Lines 441-447.
VisitContinue ==
    /\ Visiting("Continue")
    /\ m_context' = IF m_continueTags # << >>
                    THEN appendJumpTo(m_context, Last(m_continueTags))
                    ELSE m_context
    /\ frames' = Returned
    /\ UNCHANGED << fnState, tagStacks, modState, stackLayout, failed, others >>

\* Lines 449-455.
VisitBreak ==
    /\ Visiting("Break")
    /\ m_context' = IF m_breakTags # << >>
                    THEN appendJumpTo(m_context, Last(m_breakTags))
                    ELSE m_context
    /\ frames' = Returned
    /\ UNCHANGED << fnState, tagStacks, modState, stackLayout, failed, others >>

\* A slip in lines 468-471: line 471 left out.
ReturnJump_HeightNotPutBack(ctx, cleanup, returnTag) ==
    appendJumpTo(Emit(ctx, Repeat(Op("POP"), cleanup)), returnTag)

\* Lines 468-471: the POPs, the jump to the return tag, and the virtual
\* height put back.
ReturnJump(ctx, cleanup, returnTag) ==
    adjustStackOffset(appendJumpTo(Emit(ctx, Repeat(Op("POP"), cleanup)), returnTag), cleanup)

\* Lines 457-473.
VisitReturn ==
    /\ Visiting("Return")
    /\ LET firstVariable == m_currentFunction.returnParameters[1]
           c1 == IF Top.node.hasExpression
                 THEN moveToStackVariable(compileExpression(m_context, firstVariable),
                                          firstVariable)
                 ELSE m_context
       IN  m_context' = ReturnJump(c1, m_stackCleanupForReturn, m_returnTag)
    /\ frames' = Returned
    /\ UNCHANGED << fnState, tagStacks, modState, stackLayout, failed, others >>

\* Lines 475-486.
VisitVariableDeclarationStatement ==
    /\ Visiting("VariableDeclarationStatement")
    /\ m_context' = IF Top.node.hasExpression
                    THEN moveToStackVariable(compileExpression(m_context, ValueSize), ValueSize)
                    ELSE m_context
    /\ CheckAndReturn(m_context', m_context.deposit)
    /\ UNCHANGED << fnState, tagStacks, modState, stackLayout, others >>

\* Lines 488-497.
VisitExpressionStatement ==
    /\ Visiting("ExpressionStatement")
    /\ m_context' = popStackElement(
                        compileExpressionOf(m_context, ValueSize, 0, Top.node.calls), ValueSize)
    /\ CheckAndReturn(m_context', m_context.deposit)
    /\ UNCHANGED << fnState, tagStacks, modState, stackLayout, others >>

\* Lines 501-504.
VisitPlaceholderStatement ==
    /\ Visiting("PlaceholderStatement")
    /\ m_modifierDepth' = m_modifierDepth + 1
    /\ frames' = Front(frames)
                 \o << Frame("placeholder_done", Top.node, m_context.deposit, 0, 0),
                       Frame("appendModifierOrFunctionCode", Top.node, 0, 0, 0) >>
    /\ UNCHANGED << m_context, fnState, tagStacks, m_stackCleanupForReturn, stackLayout,
                    failed, others >>

\* Lines 505-507.
PlaceholderStatement_End ==
    /\ At("placeholder_done")
    /\ m_modifierDepth' = m_modifierDepth - 1
    /\ CheckAndReturn(m_context, Top.height)
    /\ UNCHANGED << m_context, fnState, tagStacks, m_stackCleanupForReturn, stackLayout,
                    others >>

\* --------------------------------------------------------- CompilerUtils
\* CompilerUtils::dataStartOffset: the arguments follow the four bytes of the
\* function selector.
dataStartOffset == 4

\* A type is given by its size on the stack: one slot for a value type, which
\* takes 32 bytes of call data, two slots (offset and length) for a
\* dynamically sized byte array in call data.
ByteArrayType == 2

isDynamicallySized(type) == type = ByteArrayType

\* loadFromMemory: the value of numBytes bytes at a fixed offset.
loadFromMemory(offset, numBytes, fromCalldata) ==
    << Push(offset), Item(IF fromCalldata THEN "CALLDATALOAD" ELSE "MLOAD", numBytes) >>

\* loadFromMemoryDynamic: the value at the offset on the stack, which is kept
\* below the value and moved past it.
loadFromMemoryDynamic(type, numBytes, fromCalldata) ==
    << dupInstruction(1), Item(IF fromCalldata THEN "CALLDATALOAD" ELSE "MLOAD", numBytes) >>
        \o [k \in 1..type |-> swapInstruction(k)]
        \o << Push(numBytes), Op("ADD") >>

pushNewTag(ctx) == Emit(TakeTag(ctx), << PushTag(NextTag(ctx)) >>)

\* The parameter and return types of the function type of a declaration; the
\* accessor of a state variable takes nothing and returns its value.
getParameterTypes(d) == IF d.kind = "FunctionDefinition" THEN d.parameters ELSE << >>

getReturnParameterTypes(d) ==
    IF d.kind = "FunctionDefinition" THEN d.returnParameters ELSE << 1 >>

\* ------------------------------------------------ appendCalldataUnpacker
\* A slip in line 225: 32 is added to the length, not 31.
PaddedLength_Adds32 ==
    << Push(32), dupInstruction(1), Push(32), dupInstruction(4), Op("ADD"), Op("DIV"), Op("MUL") >>

\* Lines 225-227: the length on top of the stack rounded up to 32 bytes.
PaddedLength ==
    << Push(32), dupInstruction(1), Push(31), dupInstruction(4), Op("ADD"), Op("DIV"),
       Op("MUL") >>

\* A slip in lines 225-229: the 32 bytes of the length word added to the
\* rounded length.
NextCalldataOffset_WithLengthWord ==
    PaddedLength \o << Push(32), Op("ADD"), dupInstruction(3), Op("ADD") >>

\* Lines 225-229: the offset of what follows the bytes of a dynamic parameter.
NextCalldataOffset == PaddedLength \o << dupInstruction(3), Op("ADD") >>

\* Lines 212-237: the loop over the parameters.
RECURSIVE UnpackParameters(_, _, _, _)
UnpackParameters(types, offset, currentDynamicParameter, fromMemory) ==
    IF types = << >> THEN << >>
    ELSE IF isDynamicallySized(types[1])
    THEN (IF currentDynamicParameter = 0 THEN << Push(offset) >> ELSE << >>)
            \o loadFromMemory(dataStartOffset + currentDynamicParameter * 32, 32, ~fromMemory)
            \o NextCalldataOffset
            \o UnpackParameters(Tail(types), offset, currentDynamicParameter + 1, fromMemory)
    ELSE IF currentDynamicParameter = 0
    THEN loadFromMemory(offset, 32, ~fromMemory)
            \o UnpackParameters(Tail(types), offset + 32, 0, fromMemory)
    ELSE loadFromMemoryDynamic(types[1], 32, ~fromMemory)
            \o UnpackParameters(Tail(types), offset, currentDynamicParameter, fromMemory)

\* Lines 206-209.
DynamicParameterCount(types) ==
    Cardinality({ k \in 1..Len(types) : isDynamicallySized(types[k]) })

\* Lines 200-240.
CalldataUnpacker(types, fromMemory) ==
    UnpackParameters(types, dataStartOffset + DynamicParameterCount(types) * 32, 0, fromMemory)
        \o (IF DynamicParameterCount(types) > 0 THEN << Op("POP") >> ELSE << >>)

appendCalldataUnpacker(ctx, types, fromMemory) == Emit(ctx, CalldataUnpacker(types, fromMemory))

\* ------------------------------------------------ appendReturnValuePacker
\* Lines 250-259: a copy of every value is converted and stored, 32 bytes
\* each; then RETURN(0, dataOffset).
RECURSIVE PackReturnValues(_, _, _)
PackReturnValues(types, dataOffset, stackDepth) ==
    IF types = << >> THEN << Push(dataOffset), Push(0), Op("RETURN") >>
    ELSE Repeat(dupInstruction(stackDepth), types[1])
            \o << Item("CONVERT", types[1]), Push(dataOffset), Op("MSTORE") >>
            \o PackReturnValues(Tail(types), dataOffset + 32, stackDepth - types[1])

\* Lines 242-260.
appendReturnValuePacker(ctx, types) == Emit(ctx, PackReturnValues(types, 0, SumSeq(types)))

\* ------------------------------------------------------- compileContract
compileState == << m_returnTag, m_breakTags, m_continueTags, m_stackCleanupForReturn,
                   m_currentFunction, m_modifierDepth, stackLayout, failed >>

\* compileContract is at position p, no visitor is running.
In(p) == pc = p /\ frames = << >> /\ ~failed

\* The elements of a set of numbers in ascending order, as the iteration over
\* a std::map gives its keys.
RECURSIVE Ascending(_)
Ascending(S) ==
    IF S = {} THEN << >>
    ELSE LET least == CHOOSE x \in S : \A y \in S : x <= y
         IN  << least >> \o Ascending(S \ {least})

\* The element a range-for over a std::set of pointers comes to first: the
\* declaration at the lowest address.
FirstOf(S) == CHOOSE d \in S : \A e \in S : contract.address[d] <= contract.address[e]

\* Lines 262-267: the state variables, most base contract first.
RECURSIVE registerStateVariables(_)
registerStateVariables(bases) ==
    IF bases = << >> THEN << >>
    ELSE [k \in 1..Len(Last(bases).stateVariables) |-> Last(bases).stateVariables[k].id]
            \o registerStateVariables(Front(bases))

\* Lines 71-78.
initializeContext(ctx, c) ==
    [ctx EXCEPT !.inheritanceHierarchy =
                    [k \in 1..Len(c.linearizedBaseContracts) |-> c.linearizedBaseContracts[k].id],
                !.stateVariables = @ \o registerStateVariables(c.linearizedBaseContracts)]

\* Lines 269-274.
RECURSIVE InitializedVariables(_)
InitializedVariables(variables) ==
    IF variables = << >> THEN << >>
    ELSE (IF variables[1].hasValue THEN << ItemOf("INITVAR", 0, variables[1].id) >> ELSE << >>)
            \o InitializedVariables(Tail(variables))

initializeStateVariables(ctx, c) == Emit(ctx, InitializedVariables(c.stateVariables))

\* Lines 54-55: the context is cleared and set up for the runtime program.
\* The call is the first one of this Compiler or follows one that returned.
CompileContract_Start ==
    /\ In("idle") \/ In("returned")
    /\ Len(compiled) < MaxRuns
    /\ evm.status = "idle"
    /\ m_context' = initializeContext(EmptyContext, contract)
    /\ pc' = "selector"
    /\ locals' = NoLocals
    /\ UNCHANGED << m_runtimeContext, compileState, frames, contract, compiled, evm >>

\* A slip in line 175: the selector of the call is not kept for the next test.
SelectorTest_Consuming(selector) == << Push(selector), Op("EQ") >>

\* Line 175.
SelectorTest(selector) == << dupInstruction(1), Push(selector), Op("EQ") >>

\* Lines 172-177: one comparison for every selector, lowest selector first.
RECURSIVE CompareSelectors(_, _, _)
CompareSelectors(ctx, selectors, entryPoints) ==
    IF selectors = << >>
    THEN [context |-> ctx, callDataUnpackerEntryPoints |-> entryPoints]
    ELSE LET c1 == Emit(TakeTag(ctx), SelectorTest(selectors[1]))
         IN  CompareSelectors(appendConditionalJumpTo(c1, NextTag(ctx)), Tail(selectors),
                              entryPoints @@ (selectors[1] :> NextTag(ctx)))

\* Lines 164-181, 186: the selector is loaded and compared; then the fallback
\* function is visited in place, or the program stops.
AppendFunctionSelector ==
    /\ In("selector")
    /\ LET interfaceFunctions == contract.interfaceFunctions
           c1 == IF DOMAIN interfaceFunctions # {}
                 THEN Emit(m_context, loadFromMemory(0, dataStartOffset, TRUE))
                 ELSE m_context
           r == CompareSelectors(c1, Ascending(DOMAIN interfaceFunctions), << >>)
       IN  IF contract.fallbackFunction # ""
           THEN /\ m_context' = pushNewTag(r.context)
                /\ locals' = [locals EXCEPT
                                 !.callDataUnpackerEntryPoints = r.callDataUnpackerEntryPoints,
                                 !.returnTag = NextTag(r.context)]
                /\ frames' = << VisitFrame(contract.declarations[contract.fallbackFunction]) >>
                /\ pc' = "fallback"
           ELSE /\ m_context' = Emit(r.context, << Op("STOP") >>)
                /\ locals' = [locals EXCEPT
                                 !.callDataUnpackerEntryPoints = r.callDataUnpackerEntryPoints]
                /\ frames' = << >>
                /\ pc' = "unpackers"
    /\ UNCHANGED << m_runtimeContext, compileState, contract, compiled, evm >>

\* Lines 182-183: the fallback function returns here.
AppendFunctionSelector_AfterFallback ==
    /\ In("fallback")
    /\ m_context' = appendReturnValuePacker(
                        Emit(m_context, << Tag(locals.returnTag) >>),
                        getReturnParameterTypes(contract.declarations[contract.fallbackFunction]))
    /\ pc' = "unpackers"
    /\ UNCHANGED << m_runtimeContext, compileState, frames, contract, locals, compiled, evm >>

\* Lines 188-197: the block of every interface function, lowest selector first.
RECURSIVE UnpackerBlocks(_, _, _)
UnpackerBlocks(ctx, selectors, entryPoints) ==
    IF selectors = << >> THEN ctx
    ELSE LET d == contract.declarations[contract.interfaceFunctions[selectors[1]]]
             c1 == Emit(ctx, << Tag(entryPoints[selectors[1]]) >>)
             c2 == appendCalldataUnpacker(pushNewTag(c1), getParameterTypes(d), FALSE)
             c3 == appendJumpTo(RequestLabel(c2, d.name), getFunctionEntryLabel(c2, d.name))
             c4 == Emit(c3, << Tag(NextTag(c1)) >>)
         IN  UnpackerBlocks(appendReturnValuePacker(c4, getReturnParameterTypes(d)),
                            Tail(selectors), entryPoints)

\* Lines 188-197 and 57: the blocks, and the first set of functions to visit.
AppendFunctionSelector_Unpackers ==
    /\ In("unpackers")
    /\ LET c == UnpackerBlocks(m_context, Ascending(DOMAIN contract.interfaceFunctions),
                               locals.callDataUnpackerEntryPoints)
       IN  /\ m_context' = c
           /\ locals' = [locals EXCEPT !.functions = getFunctionsWithoutCode(c),
                                       !.pending = getFunctionsWithoutCode(c)]
    /\ pc' = "runtime"
    /\ UNCHANGED << m_runtimeContext, compileState, frames, contract, compiled, evm >>

\* Lines 60-61 and 123-124: the next function of the set is visited.
Drain_Visit ==
    /\ In("runtime") \/ In("creation")
    /\ locals.pending # {}
    /\ frames' = << VisitFrame(contract.declarations[FirstOf(locals.pending)]) >>
    /\ locals' = [locals EXCEPT !.pending = @ \ {FirstOf(locals.pending)}]
    /\ UNCHANGED << m_context, m_runtimeContext, compileState, contract, pc, compiled, evm >>

\* A slip in lines 62 and 125: the set is not taken again.
Drain_NextRound_NoSecondRound ==
    /\ In("runtime") \/ In("creation")
    /\ locals.functions # {}
    /\ locals.pending = {}
    /\ locals' = [locals EXCEPT !.functions = {}, !.pending = {}]
    /\ UNCHANGED << m_context, m_runtimeContext, compileState, frames, contract, pc,
                    compiled, evm >>

\* Lines 62 and 125: the round is over, the functions asked for meanwhile
\* make the next one.
Drain_NextRound ==
    /\ In("runtime") \/ In("creation")
    /\ locals.functions # {}
    /\ locals.pending = {}
    /\ locals' = [locals EXCEPT !.functions = getFunctionsWithoutCode(m_context),
                                !.pending = getFunctionsWithoutCode(m_context)]
    /\ UNCHANGED << m_context, m_runtimeContext, compileState, frames, contract, pc,
                    compiled, evm >>

\* Lines 58, 66-67: the loop is left, the contexts are swapped and the
\* context for the creation program is set up.
CompileContract_Swap ==
    /\ In("runtime")
    /\ locals.functions = {}
    /\ m_context' = initializeContext(m_runtimeContext, contract)
    /\ m_runtimeContext' = m_context
    /\ pc' = "baseArguments"
    /\ UNCHANGED << compileState, frames, contract, locals, compiled, evm >>

\* ----------------------------------------------- packIntoContractCreator
\* A slip in lines 93-94: a later specifier replaces an earlier one.
RecordSpecifier_LastWins(baseArguments, base) ==
    (base.base :> base.arguments) @@ baseArguments

\* Lines 93-94: the arguments of a specifier are kept unless the base has
\* some already.
RecordSpecifier(baseArguments, base) ==
    IF base.base \notin DOMAIN baseArguments
    THEN baseArguments @@ (base.base :> base.arguments)
    ELSE baseArguments

\* Lines 88-95: the specifiers of one contract, in the order they are written.
RECURSIVE RecordSpecifiers(_, _)
RecordSpecifiers(baseArguments, specifiers) ==
    IF specifiers = << >> THEN baseArguments
    ELSE RecordSpecifiers(RecordSpecifier(baseArguments, specifiers[1]), Tail(specifiers))

\* Lines 87-95: the contracts of the linearized list, most derived first.
RECURSIVE BaseArguments(_, _)
BaseArguments(baseArguments, bases) ==
    IF bases = << >> THEN baseArguments
    ELSE BaseArguments(RecordSpecifiers(baseArguments, bases[1].baseContracts), Tail(bases))

\* Lines 83-95.
PackIntoContractCreator_BaseArguments ==
    /\ In("baseArguments")
    /\ locals' = [locals EXCEPT
                     !.baseArguments = BaseArguments(<< >>, contract.linearizedBaseContracts),
                     !.i = 1]
    /\ pc' = "bases"
    /\ UNCHANGED << m_context, m_runtimeContext, compileState, frames, contract, compiled, evm >>

\* Lines 135-136: every argument is compiled to the type of its parameter.
RECURSIVE CompileArguments(_, _, _)
CompileArguments(ctx, arguments, types) ==
    IF arguments = << >> THEN ctx
    ELSE CompileArguments(compileExpressionOf(ctx, types[1], arguments[1], << >>),
                          Tail(arguments), Tail(types))

\* Lines 129-139.
appendBaseConstructorCall(ctx, constructor, arguments) ==
    LET c1 == CompileArguments(pushNewTag(ctx), arguments, constructor.parameters)
        c2 == appendJumpTo(RequestLabel(c1, constructor.name),
                           getFunctionEntryLabel(c1, constructor.name))
    IN  Emit(c2, << Tag(NextTag(ctx)) >>)

\* Lines 146-148: 32 bytes for every parameter, which are of value types.
ArgumentSize(constructor) == 32 * Len(constructor.parameters)

\* Lines 141-160.
appendConstructorCall(ctx, constructor) ==
    LET c1 == pushNewTag(ctx)
        c2 == IF ArgumentSize(constructor) > 0
              THEN appendCalldataUnpacker(
                       Emit(c1, << Push(ArgumentSize(constructor)), Op("PROGRAMSIZE"),
                                   Push(dataStartOffset), Op("CODECOPY") >>),
                       constructor.parameters, TRUE)
              ELSE c1
        c3 == appendJumpTo(RequestLabel(c2, constructor.name),
                           getFunctionEntryLabel(c2, constructor.name))
    IN  Emit(c3, << Tag(NextTag(ctx)) >>)

\* A slip in line 101: the list is walked from its front.
BaseAt_DerivedFirst(bases, i) == bases[i + 1]

\* Line 101: bases[bases.size() - i].
BaseAt(bases, i) == bases[Len(bases) - i + 1]

\* Lines 99-109: one turn of the loop over the bases, most base first.
PackIntoContractCreator_Base ==
    /\ In("bases")
    /\ locals.i < Len(contract.linearizedBaseContracts)
    /\ LET base == BaseAt(contract.linearizedBaseContracts, locals.i)
           c1 == initializeStateVariables(m_context, base)
       IN  IF base.constructor = ""
           THEN m_context' = c1 /\ failed' = FALSE
           ELSE IF base.id \notin DOMAIN locals.baseArguments
           THEN m_context' = c1 /\ failed' = TRUE
           ELSE /\ m_context' = appendBaseConstructorCall(
                                    c1, contract.declarations[base.constructor],
                                    locals.baseArguments[base.id])
                /\ failed' = FALSE
    /\ locals' = [locals EXCEPT !.i = @ + 1]
    /\ UNCHANGED << m_runtimeContext, fnState, tagStacks, modState, stackLayout, frames,
                    contract, pc, compiled, evm >>

\* addSubroutine: the assembly becomes a subroutine of the context, its size
\* is pushed and the item that stands for it is handed back.
addSubroutine(ctx, asm) ==
    Emit([ctx EXCEPT !.subs = @ \o << asm >>], << Item("PUSHSUBSIZE", Len(ctx.subs)) >>)

\* Lines 110-120: the contract itself, the copy of the runtime program and
\* its return; then the first set of functions to visit.
PackIntoContractCreator_Contract ==
    /\ In("bases")
    /\ locals.i >= Len(contract.linearizedBaseContracts)
    /\ LET this == contract.linearizedBaseContracts[1]
           c1 == initializeStateVariables(m_context, this)
           c2 == IF this.constructor # ""
                 THEN appendConstructorCall(c1, contract.declarations[this.constructor])
                 ELSE c1
           c3 == Emit(addSubroutine(c2, m_runtimeContext.asm),
                      << dupInstruction(1), Item("PUSHSUB", Len(c2.subs)), Push(0),
                         Op("CODECOPY"), Push(0), Op("RETURN") >>)
       IN  /\ m_context' = c3
           /\ locals' = [locals EXCEPT !.functions = getFunctionsWithoutCode(c3),
                                       !.pending = getFunctionsWithoutCode(c3)]
    /\ pc' = "creation"
    /\ UNCHANGED << m_runtimeContext, compileState, frames, contract, compiled, evm >>

\* Lines 121, 127 and 69: the loop is left and compileContract returns; the
\* caller has the two assemblies.
CompileContract_Return ==
    /\ In("creation")
    /\ locals.functions = {}
    /\ compiled' = compiled \o << [creation |-> m_context.asm, runtime |-> m_runtimeContext.asm,
                                   address |-> contract.address] >>
    /\ pc' = "returned"
    /\ UNCHANGED << m_context, m_runtimeContext, compileState, frames, contract, locals, evm >>

\* ------------------------------------ appendCalldataUnpacker on its own
\* Lines 200-240, for the types in locals.typeParameters and call data.
AppendCalldataUnpacker ==
    /\ In("unpacker")
    /\ m_context' = appendCalldataUnpacker(m_context, locals.typeParameters, FALSE)
    /\ pc' = "unpacked"
    /\ UNCHANGED << m_runtimeContext, compileState, frames, contract, locals, compiled, evm >>

\* ---------------------------------------------- visit(VariableDeclaration)
\* Lines 276-289: the accessor of a state variable.
VisitVariableDeclaration ==
    /\ Visiting("VariableDeclaration")
    /\ LET c1 == startFunction(m_context, Top.node.name)
       IN  m_context' = Emit(c1, << Tag(getFunctionEntryLabel(c1, Top.node.name)),
                                    Op("ACCESSOR") >>)
    /\ m_breakTags' = << >>
    /\ m_continueTags' = << >>
    /\ frames' = Returned
    /\ UNCHANGED << fnState, modState, stackLayout, failed, others >>

\* ------------------------------------------------- the machine that runs
\* The machine word; the arithmetic of the machine is modulo Word.
Word == 2 ^ WordBits

\* The value a load of numBytes bytes at `offset' reads: the selector in the
\* first four bytes, else the word stored at the offset, zero where the data
\* holds nothing.
LoadFrom(data, offset, numBytes) ==
    IF offset = 0 /\ numBytes = 4 THEN data.selector
    ELSE IF offset \in DOMAIN data.words THEN data.words[offset] ELSE 0

NoData == [selector |-> 0, words |-> << >>]

EvmIdle ==
    [status |-> "idle", code |-> "context", pc |-> 0, stack |-> << >>, data |-> NoData,
     tags |-> << >>]

\* The index of the item that defines tag t, 0 when none does.
TagPosition(asm, t) ==
    IF \E i \in 1..Len(asm) : asm[i] = Tag(t)
    THEN CHOOSE i \in 1..Len(asm) : asm[i] = Tag(t)
    ELSE 0

EvmJump(asm, e, target, st) ==
    IF TagPosition(asm, target) # 0
    THEN [e EXCEPT !.pc = TagPosition(asm, target), !.stack = st]
    ELSE [e EXCEPT !.status = "jumped", !.stack = st]

\* One instruction of the machine on the items asm.
EvmStep(asm, e) ==
    LET it == asm[e.pc]
        st == e.stack
        n  == Len(st)
        a  == st[n]
        b  == st[n - 1]
        next(s) == [e EXCEPT !.pc = @ + 1, !.stack = s]
        below(k) == SubSeq(st, 1, n - k)
        needs == CASE it.op \in {"POP", "JUMP", "ISZERO", "CALLDATALOAD", "MLOAD"} -> 1
                   [] it.op \in {"ADD", "MUL", "DIV", "EQ", "JUMPI", "RETURN"} -> 2
                   [] it.op = "SWAP" -> it.arg + 1
                   [] it.op = "DUP" -> it.arg
                   [] OTHER -> 0
    IN  IF n < needs THEN [e EXCEPT !.status = "underflow"]
        ELSE CASE it.op = "TAG" -> [next(st) EXCEPT !.tags = @ \o << it.arg >>]
               [] it.op \in {"PUSH", "PUSHTAG"} -> next(st \o << it.arg >>)
               [] it.op = "POP" -> next(below(1))
               [] it.op = "SWAP" ->
                    next([st EXCEPT ![n] = st[n - it.arg], ![n - it.arg] = st[n]])
               [] it.op = "DUP" -> next(st \o << st[n - it.arg + 1] >>)
               [] it.op = "ADD" -> next(below(2) \o << (a + b) % Word >>)
               [] it.op = "MUL" -> next(below(2) \o << (a * b) % Word >>)
               [] it.op = "DIV" -> next(below(2) \o << IF b = 0 THEN 0 ELSE a \div b >>)
               [] it.op = "EQ" -> next(below(2) \o << IF a = b THEN 1 ELSE 0 >>)
               [] it.op = "ISZERO" -> next(below(1) \o << IF a = 0 THEN 1 ELSE 0 >>)
               [] it.op \in {"CALLDATALOAD", "MLOAD"} ->
                    next(below(1) \o << LoadFrom(e.data, a, it.arg) >>)
               [] it.op = "JUMP" -> EvmJump(asm, e, a, below(1))
               [] it.op = "JUMPI" ->
                    IF b # 0 THEN EvmJump(asm, e, a, below(2)) ELSE next(below(2))
               [] it.op = "STOP" -> [e EXCEPT !.status = "stopped"]
               [] it.op = "RETURN" -> [e EXCEPT !.status = "returned"]
               [] OTHER -> [e EXCEPT !.status = "opaque"]

\* The values on the stack when a function's return tag is reached.
ReturnAddress == 0 - 1

ArgumentValue(i) == 0 - (10 + i)

ReturnValue(i) == 0 - (20 + i)

LocalValue(i) == 0 - (30 + i)

FrameAtReturnTag(f) ==
    << ReturnAddress >> \o [i \in 1..SumSeq(f.parameters) |-> ArgumentValue(i)]
        \o [i \in 1..SumSeq(f.returnParameters) |-> ReturnValue(i)]
        \o [i \in 1..SumSeq(f.localVariables) |-> LocalValue(i)]

compilerState == << m_context, m_runtimeContext, m_returnTag, m_breakTags, m_continueTags,
                    m_stackCleanupForReturn, m_currentFunction, m_modifierDepth,
                    stackLayout, frames, failed, contract, pc, locals, compiled >>

\* The items the machine runs.
EvmCode == IF evm.code = "runtime" THEN m_runtimeContext.asm ELSE m_context.asm


\* The machine is put at the return tag of the function just compiled, on the
\* stack the calling convention leaves there.
EvmStartEpilogue ==
    /\ frames = << >> /\ ~failed
    /\ pc = "visit"
    /\ evm.status = "idle"
    /\ m_currentFunction # NoStmt
    /\ evm' = [EvmIdle EXCEPT !.status = "running",
                              !.pc = TagPosition(m_context.asm, m_returnTag),
                              !.stack = FrameAtReturnTag(m_currentFunction)]
    /\ UNCHANGED compilerState

EvmRun ==
    /\ evm.status = "running"
    /\ evm.pc \in 1..Len(EvmCode)
    /\ evm' = EvmStep(EvmCode, evm)
    /\ UNCHANGED compilerState

\* The runtime program is called with a function selector.
EvmStartCall ==
    /\ In("returned")
    /\ evm.status = "idle"
    /\ \E selector \in 0..(MaxSelectors + 1) :
           evm' = [EvmIdle EXCEPT !.status = "running", !.code = "runtime", !.pc = 1,
                                  !.data = [selector |-> selector, words |-> << >>]]
    /\ UNCHANGED compilerState

\* The lengths a dynamic parameter is given: around a multiple of 32, and the
\* longest ones a word can hold.
Lengths == { 0, 1, 32, 33, Word - 32, Word - 1 }

\* The positions of the dynamic parameters among the types.
DynamicParameters(types) == { k \in 1..Len(types) : isDynamicallySized(types[k]) }

\* The call data for dynamic parameters of the lengths lens (by position):
\* the length of the k-th dynamic parameter is the k-th word after the
\* selector; every other byte is zero.
CallData(types, lens) ==
    [selector |-> 0,
     words |-> [o \in { dataStartOffset + 32 * (k - 1) : k \in 1..Cardinality(DOMAIN lens) } |->
                   lens[CHOOSE p \in DOMAIN lens :
                            Cardinality({ q \in DOMAIN lens : q < p }) * 32 + dataStartOffset = o]]]

\* The emitted unpacker is run on call data.
EvmStartUnpack ==
    /\ In("unpacked")
    /\ evm.status = "idle"
    /\ \E lens \in [DynamicParameters(locals.typeParameters) -> Lengths] :
           evm' = [EvmIdle EXCEPT !.status = "running", !.pc = 1,
                                  !.data = CallData(locals.typeParameters, lens)]
    /\ UNCHANGED compilerState

\* The items this model does not run instruction by instruction: what the
\* expression compiler emits, and the instructions on the program's own code.
OpaqueOps ==
    { "EXPR", "MOVE", "INITVAR", "ACCESSOR", "CONVERT", "MSTORE", "PROGRAMSIZE", "CODECOPY",
      "PUSHSUB", "PUSHSUBSIZE" }

\* The values an expression, or an instruction on the program's code, may
\* leave on the stack.
ExpressionValues == { 0, Word - 1 }

\* One instruction of the machine; an item of OpaqueOps changes the stack
\* by its deposit, and the words it leaves are v.
EvmStepOver(asm, e, v) ==
    LET it == asm[e.pc]
        st == e.stack
        n  == Len(st)
        d  == Deposit(it)
    IN  IF it.op \notin OpaqueOps THEN EvmStep(asm, e)
        ELSE IF d >= 0 THEN [e EXCEPT !.pc = @ + 1, !.stack = st \o Repeat(v, d)]
        ELSE IF n + d < 0 THEN [e EXCEPT !.status = "underflow"]
        ELSE [e EXCEPT !.pc = @ + 1, !.stack = SubSeq(st, 1, n + d)]

\* The creation program compileContract has returned is run from its first
\* item on an empty stack.
EvmStartCreation ==
    /\ In("returned")
    /\ evm.status = "idle"
    /\ evm' = [EvmIdle EXCEPT !.status = "running", !.code = "creation", !.pc = 1]
    /\ UNCHANGED compilerState

EvmRunCreation ==
    /\ evm.status = "running"
    /\ evm.code = "creation"
    /\ evm.pc \in 1..Len(EvmCode)
    /\ \E v \in ExpressionValues : evm' = EvmStepOver(EvmCode, evm, v)
    /\ UNCHANGED compilerState

\* The unpacker is run on call data in which the last dynamic parameter has
\* any length a word can hold.
EvmStartPadding ==
    /\ In("unpacked")
    /\ evm.status = "idle"
    /\ \E lens \in [DynamicParameters(locals.typeParameters) -> 0..(Word - 1)] :
           /\ \A k \in DOMAIN lens :
                  (\E j \in DOMAIN lens : j > k) => lens[k] \in Lengths
           /\ evm' = [EvmIdle EXCEPT !.status = "running", !.pc = 1,
                                     !.data = CallData(locals.typeParameters, lens)]
    /\ UNCHANGED compilerState

\* ------------------------------------------------------------- the inputs
Leaves ==
    { Continue, Break, Return(FALSE), Return(TRUE), ExpressionStatement,
      VariableDeclarationStatement(FALSE), VariableDeclarationStatement(TRUE) }

\* The statements that leave a statement list early.
Exits == { Continue, Break, Return(FALSE) }

\* The parts a for statement has: << init, condition?, loop expression >>.
ForParts ==
    { << NoStmt, FALSE, NoStmt >>,
      << VariableDeclarationStatement(TRUE), TRUE, ExpressionStatement >>,
      << NoStmt, TRUE, ExpressionStatement >>,
      << ExpressionStatement, FALSE, NoStmt >> }

\* Every statement one level above the statements S.
Nest(S) ==
    { IfStatement(s, NoStmt) : s \in S }
        \cup { IfStatement(s, x) : s \in S, x \in Exits }
        \cup { WhileStatement(s) : s \in S }
        \cup { ForStatement(p[1], p[2], p[3], s) : p \in ForParts, s \in S }
        \cup { Block(<< s, x >>) : s \in S, x \in Exits }

\* The statements nested at most d deep over the leaves L.
RECURSIVE Statements(_, _)
Statements(L, d) == IF d = 0 THEN L ELSE Statements(L, d - 1) \cup Nest(Statements(L, d - 1))

\* The parameter and local variable sizes of the modifiers of this model.
ModifierShapes == { << << >>, << 1 >> >>, << << 1 >>, << 1 >> >>, << << 1, 2 >>, << >> >> }

ModifierBodies ==
    { Block(<< PlaceholderStatement >>),
      Block(<< ExpressionStatement, PlaceholderStatement, ExpressionStatement >>),
      Block(<< IfStatement(PlaceholderStatement, Return(FALSE)) >>),
      Block(<< WhileStatement(PlaceholderStatement) >>),
      Block(<< PlaceholderStatement, Return(FALSE) >>),
      Block(<< PlaceholderStatement, PlaceholderStatement >>),
      Block(<< IfStatement(Return(TRUE), NoStmt), PlaceholderStatement >>) }

\* The modifier lists of n modifiers: one body with every choice of shapes,
\* and every choice of bodies with one shape.
ModifierLists(n) ==
    { [i \in 1..n |-> ModifierDefinition(sh[i][1], sh[i][2], b)] :
          sh \in [1..n -> ModifierShapes], b \in ModifierBodies }
        \cup { [i \in 1..n |-> ModifierDefinition(<< 1 >>, << 1 >>, bs[i])] :
                   bs \in [1..n -> ModifierBodies] }

\* The bodies of the functions that have modifiers.
WrappedBodies ==
    { Block(<< s >>) :
        s \in Leaves \cup { IfStatement(Return(FALSE), NoStmt), WhileStatement(Return(TRUE)),
                            IfStatement(Break, Return(TRUE)) } }

\* Functions without modifiers and every body; functions with modifiers.
Functions ==
    { FunctionDefinition("f", << 1 >>, << 1 >>, << 1 >>, << >>, Block(<< s >>)) :
          s \in Statements(Leaves, MaxDepth) }
        \cup { FunctionDefinition("f", << 1 >>, << 1 >>, << 1 >>, ms, b) :
                   ms \in UNION { ModifierLists(n) : n \in 1..MaxModifiers },
                   b \in WrappedBodies }

\* Functions of every signature, with an empty body.
Signatures ==
    { FunctionDefinition("f", Repeat(1, a), Repeat(1, r), Repeat(1, l), << >>, Block(<< >>)) :
          a \in 0..MaxArgs, r \in 0..MaxRets, l \in 0..MaxLocals }

\* ------------------------------------------------------- the contracts
\* The names of the declarations, in the order of their addresses after
\* parsing.
DeclarationNames == << "f", "g", "h", "v", "fallback", "c1", "c2", "c3", "c4", "c5" >>

\* The constructor of the contract with this id.
ConstructorName(id) == DeclarationNames[5 + id]

\* The addresses of the declarations; those of another parse may be in
\* another order.
AddressesAfterParsing ==
    [n \in { DeclarationNames[k] : k \in 1..Len(DeclarationNames) } |->
        CHOOSE k \in 1..Len(DeclarationNames) : DeclarationNames[k] = n]

AddressesReversed ==
    [n \in DOMAIN AddressesAfterParsing |-> Len(DeclarationNames) + 1 - AddressesAfterParsing[n]]

AddressOrders == { AddressesAfterParsing, AddressesReversed }

\* A function that calls the functions `calls'.
Caller(n, ps, calls) ==
    FunctionDefinition(n, ps, << 1 >>, << >>, << >>, Block(<< CallStatement(calls) >>))

\* A function with a statement of every kind and a modifier.
EveryStatement(n) ==
    FunctionDefinition(n, << 1 >>, << 1 >>, << 1, 1 >>,
        << ModifierDefinition(<< 1 >>, << >>, Block(<< PlaceholderStatement >>)) >>,
        Block(<< VariableDeclarationStatement(TRUE),
                 WhileStatement(IfStatement(Break, Continue)),
                 ForStatement(VariableDeclarationStatement(FALSE), TRUE, ExpressionStatement,
                              Block(<< ExpressionStatement >>)),
                 Return(TRUE) >>))

\* A constructor of contract id.
Constructor(id, ps, calls) ==
    FunctionDefinition(ConstructorName(id), ps, << >>, << >>, << >>,
                       Block(<< CallStatement(calls) >>))

\* The declarations: three functions with their parameter types and calls, an
\* accessor, a fallback function, and the constructors.
Declarations(ps, calls, h, cs) ==
    [n \in DOMAIN AddressesAfterParsing |->
        CASE n \in {"f", "g"} -> Caller(n, ps[n], calls[n])
          [] n = "h" -> h
          [] n = "v" -> VariableDeclaration("v")
          [] n = "fallback" -> Caller("fallback", << >>, calls[n])
          [] OTHER -> cs[n]]

NoCalls == [n \in {"f", "g", "h", "fallback"} |-> << >>]

OneValue == [n \in {"f", "g"} |-> << 1 >>]

\* The constructors when every base constructor takes two values.
Constructors(calls) ==
    [n \in { ConstructorName(id) : id \in 1..5 } |->
        Constructor(CHOOSE id \in 1..5 : ConstructorName(id) = n,
                    IF n = "c1" THEN << 1 >> ELSE << 1, 1 >>, calls)]

\* The state variables of contract id: one with a value, one without.
StateVariables(id) == << StateVariable(10 * id + 1, TRUE), StateVariable(10 * id + 2, FALSE) >>

\* A contract without bases.
Single(constructor) == << ContractDefinition(1, StateVariables(1), constructor, << >>) >>

\* The interfaces: some selectors, each with a function or accessor of its own.
Interfaces ==
    { fs \in UNION { [S -> {"f", "g", "v"}] : S \in SUBSET (1..MaxSelectors) } :
        \A a, b \in DOMAIN fs : fs[a] = fs[b] => a = b }

\* Contracts of every interface, with and without a fallback function.
InterfaceContracts ==
    { Contract(Single(""), fs, fb, Declarations(OneValue, NoCalls, Caller("h", << >>, << >>),
                                                Constructors(<< >>)),
               AddressesAfterParsing) :
        fs \in Interfaces, fb \in {"", "fallback"} }

\* Contracts whose two interface functions take parameters of every kind;
\* they call a function with statements of every kind.
ParameterLists == { << >>, << 1, 1 >>, << ByteArrayType >>, << 1, ByteArrayType, 1 >> }

ParameterContracts ==
    { Contract(Single(""), (1 :> "f") @@ (2 :> "g"), "",
               Declarations([n \in {"f", "g"} |-> ps], [NoCalls EXCEPT !["g"] = << "h" >>],
                            EveryStatement("h"),
                            Constructors(<< >>)),
               AddressesAfterParsing) :
        ps \in ParameterLists }

\* Contracts of every reference graph between f, g, h and the fallback
\* function; the constructor may call a function too.
CallLists == { << >>, << "f" >>, << "g" >>, << "h" >>, << "h", "g" >> }

ReferenceContracts ==
    { Contract(Single(c[1]), (1 :> "f"), fb,
               Declarations(OneValue,
                            [n \in {"f", "g", "fallback"} |->
                                CASE n = "f" -> fc [] n = "g" -> gc [] OTHER -> << "h" >>],
                            Caller("h", << >>, hc), Constructors(c[2])),
               AddressesAfterParsing) :
        fc \in CallLists, gc \in CallLists, hc \in {<< >>, << "f" >>, << "g" >>},
        fb \in {"", "fallback"},
        c \in { << "", << >> >>, << "c1", << >> >>, << "c1", << "h" >> >> } }

\* The inheritance specifiers of n contracts, as the bases each contract
\* names: a chain, the most derived contract naming every base (in either
\* order), or a chain whose most derived contract names one more base.
RECURSIVE Through(_, _)
Through(a, b) == IF a > b THEN << >> ELSE << a >> \o Through(a + 1, b)

RECURSIVE Reversed(_)
Reversed(s) == IF s = << >> THEN << >> ELSE << Last(s) >> \o Reversed(Front(s))

Chain(n) == [k \in 1..n |-> IF k < n THEN << k + 1 >> ELSE << >>]

Hierarchies(n) ==
    { Chain(n) }
        \cup { [k \in 1..n |-> IF k = 1 THEN bs ELSE << >>] :
                   bs \in { Through(2, n), Reversed(Through(2, n)) } }
        \cup { [Chain(n) EXCEPT ![1] = bs] :
                   bs \in UNION { { << 2, j >>, << j, 2 >> } : j \in 3..n } }

\* The arguments written at the specifier of contract k that names base b.
Arguments(k, b) == << 100 * k + 10 * b + 1, 100 * k + 10 * b + 2 >>

\* The linearized list of n contracts with the specifiers of hierarchy h;
\* the specifiers of the contracts in `bare' are written without arguments,
\* the contracts in `plain' have no constructor.
Linearized(n, h, bare, plain) ==
    [k \in 1..n |->
        ContractDefinition(k, StateVariables(k),
            IF k \in plain THEN "" ELSE ConstructorName(k),
            [j \in 1..Len(h[k]) |->
                InheritanceSpecifier(h[k][j],
                                     IF k \in bare THEN << >> ELSE Arguments(k, h[k][j]))])]

\* Contracts of every hierarchy; at most one contract has no constructor.
HierarchyContracts ==
    { Contract(Linearized(n[1], n[2], bare, plain), << >>, "",
               Declarations(OneValue, NoCalls, Caller("h", << >>, << >>), Constructors(<< >>)),
               AddressesAfterParsing) :
        n \in UNION { {m} \X Hierarchies(m) : m \in 1..MaxBases },
        bare \in SUBSET (1..(MaxBases - 1)),
        plain \in { {} } \cup { {k} : k \in 1..MaxBases } }

Contracts ==
    InterfaceContracts \cup ParameterContracts \cup ReferenceContracts \cup HierarchyContracts

\* --------------------------------------------------- the specifications
\* The Compiler after construction, about to visit function f.
InitVisit(f) ==
    /\ m_context = EmptyContext
    /\ m_runtimeContext = EmptyContext
    /\ m_returnTag = 0
    /\ m_breakTags = << >>
    /\ m_continueTags = << >>
    /\ m_stackCleanupForReturn = 0
    /\ m_currentFunction = NoStmt
    /\ m_modifierDepth = 0
    /\ stackLayout = << >>
    /\ frames = << VisitFrame(f) >>
    /\ failed = FALSE
    /\ contract = NoContract
    /\ pc = "visit"
    /\ locals = NoLocals
    /\ compiled = << >>
    /\ evm = EvmIdle

Init == \E f \in Functions : InitVisit(f)

Next ==
    \/ VisitFunctionDefinition
    \/ FunctionDefinition_AfterBody
    \/ FunctionDefinition_EpilogueStep
    \/ FunctionDefinition_Jump
    \/ AppendModifierOrFunctionCode
    \/ AppendModifierOrFunctionCode_AfterBody
    \/ VisitBlock
    \/ VisitIfStatement
    \/ IfStatement_AfterFalse
    \/ IfStatement_End
    \/ VisitWhileStatement
    \/ WhileStatement_End
    \/ VisitForStatement
    \/ ForStatement_AfterInit
    \/ ForStatement_AfterBody
    \/ ForStatement_AfterLoopExpression
    \/ VisitContinue
    \/ VisitBreak
    \/ VisitReturn
    \/ VisitVariableDeclarationStatement
    \/ VisitExpressionStatement
    \/ VisitPlaceholderStatement
    \/ PlaceholderStatement_End

\* The compilation of one function: every visitor of a function body.
Spec == Init /\ [][Next]_vars

InitEpilogue == \E f \in Signatures : InitVisit(f)

NextEpilogue ==
    \/ VisitFunctionDefinition
    \/ AppendModifierOrFunctionCode
    \/ VisitBlock
    \/ FunctionDefinition_AfterBody
    \/ FunctionDefinition_EpilogueStep
    \/ FunctionDefinition_Jump
    \/ EvmStartEpilogue
    \/ EvmRun

\* The compilation of a function of any signature, and the run of its
\* epilogue.  The compiler and the machine are sequential programs: a step
\* that can be taken is taken.
SpecEpilogue == InitEpilogue /\ [][NextEpilogue]_vars /\ WF_vars(NextEpilogue)

\* A Compiler after construction, given a contract to compile.
InitCompile ==
    /\ m_context = EmptyContext
    /\ m_runtimeContext = EmptyContext
    /\ m_returnTag = 0
    /\ m_breakTags = << >>
    /\ m_continueTags = << >>
    /\ m_stackCleanupForReturn = 0
    /\ m_currentFunction = NoStmt
    /\ m_modifierDepth = 0
    /\ stackLayout = << >>
    /\ frames = << >>
    /\ failed = FALSE
    /\ contract \in Contracts
    /\ pc = "idle"
    /\ locals = NoLocals
    /\ compiled = << >>
    /\ evm = EvmIdle

\* The contract is parsed again and given to a new Compiler: the declarations
\* are where the parser puts them this time, the Compiler is as constructed.
NewCompiler ==
    /\ In("returned")
    /\ Len(compiled) < MaxRuns
    /\ evm.status = "idle"
    /\ m_context' = EmptyContext
    /\ m_runtimeContext' = EmptyContext
    /\ m_returnTag' = 0
    /\ m_breakTags' = << >>
    /\ m_continueTags' = << >>
    /\ m_stackCleanupForReturn' = 0
    /\ m_currentFunction' = NoStmt
    /\ m_modifierDepth' = 0
    /\ stackLayout' = << >>
    /\ \E address \in AddressOrders : contract' = [contract EXCEPT !.address = address]
    /\ pc' = "idle"
    /\ locals' = NoLocals
    /\ UNCHANGED << frames, failed, compiled, evm >>

NextCompile ==
    \/ Next
    \/ VisitVariableDeclaration
    \/ CompileContract_Start
    \/ AppendFunctionSelector
    \/ AppendFunctionSelector_AfterFallback
    \/ AppendFunctionSelector_Unpackers
    \/ Drain_Visit
    \/ Drain_NextRound
    \/ CompileContract_Swap
    \/ PackIntoContractCreator_BaseArguments
    \/ PackIntoContractCreator_Base
    \/ PackIntoContractCreator_Contract
    \/ CompileContract_Return
    \/ NewCompiler
    \/ EvmStartCall
    \/ EvmRun

\* Calls of compileContract, and calls of the runtime program.
SpecCompile == InitCompile /\ [][NextCompile]_vars

\* The lists of at most n types.
RECURSIVE TypeLists(_)
TypeLists(n) ==
    IF n = 0 THEN { << >> }
    ELSE TypeLists(n - 1)
            \cup { << t >> \o ts : t \in {1, ByteArrayType},
                                  ts \in { l \in TypeLists(n - 1) : Len(l) = n - 1 } }

\* (uint256, bytes, uint256, bytes).
ValueBytesValueBytes == << 1, ByteArrayType, 1, ByteArrayType >>

\* appendCalldataUnpacker is called with a list of types.
InitUnpack ==
    /\ m_context = EmptyContext
    /\ m_runtimeContext = EmptyContext
    /\ m_returnTag = 0
    /\ m_breakTags = << >>
    /\ m_continueTags = << >>
    /\ m_stackCleanupForReturn = 0
    /\ m_currentFunction = NoStmt
    /\ m_modifierDepth = 0
    /\ stackLayout = << >>
    /\ frames = << >>
    /\ failed = FALSE
    /\ contract = NoContract
    /\ pc = "unpacker"
    /\ \E types \in TypeLists(MaxParameters) \cup { ValueBytesValueBytes } :
           locals = [NoLocals EXCEPT !.typeParameters = types]
    /\ compiled = << >>
    /\ evm = EvmIdle

NextUnpack ==
    \/ AppendCalldataUnpacker
    \/ EvmStartUnpack
    \/ EvmRun

\* The unpacker for a list of types, and its run on call data.
SpecUnpack == InitUnpack /\ [][NextUnpack]_vars

\* A Compiler after construction, given a contract with a constructor, bases
\* or functions the constructor calls.
InitCreate ==
    /\ m_context = EmptyContext
    /\ m_runtimeContext = EmptyContext
    /\ m_returnTag = 0
    /\ m_breakTags = << >>
    /\ m_continueTags = << >>
    /\ m_stackCleanupForReturn = 0
    /\ m_currentFunction = NoStmt
    /\ m_modifierDepth = 0
    /\ stackLayout = << >>
    /\ frames = << >>
    /\ failed = FALSE
    /\ contract \in HierarchyContracts \cup ReferenceContracts
    /\ pc = "idle"
    /\ locals = NoLocals
    /\ compiled = << >>
    /\ evm = EvmIdle

NextCreate ==
    \/ CompileContract_Start
    \/ AppendFunctionSelector
    \/ AppendFunctionSelector_AfterFallback
    \/ AppendFunctionSelector_Unpackers
    \/ Drain_Visit
    \/ Drain_NextRound
    \/ CompileContract_Swap
    \/ PackIntoContractCreator_BaseArguments
    \/ PackIntoContractCreator_Base
    \/ PackIntoContractCreator_Contract
    \/ CompileContract_Return
    \/ VisitFunctionDefinition
    \/ FunctionDefinition_AfterBody
    \/ FunctionDefinition_EpilogueStep
    \/ FunctionDefinition_Jump
    \/ AppendModifierOrFunctionCode
    \/ VisitBlock
    \/ VisitExpressionStatement
    \/ EvmStartCreation
    \/ EvmRunCreation

\* Calls of compileContract on one Compiler, and runs of the creation
\* program each call leaves.
SpecCreate == InitCreate /\ [][NextCreate]_vars

\* (bytes) and (bytes, bytes).
BytesLists == { << ByteArrayType >>, << ByteArrayType, ByteArrayType >> }

\* appendCalldataUnpacker is called with dynamic parameters only.
InitPad ==
    /\ m_context = EmptyContext
    /\ m_runtimeContext = EmptyContext
    /\ m_returnTag = 0
    /\ m_breakTags = << >>
    /\ m_continueTags = << >>
    /\ m_stackCleanupForReturn = 0
    /\ m_currentFunction = NoStmt
    /\ m_modifierDepth = 0
    /\ stackLayout = << >>
    /\ frames = << >>
    /\ failed = FALSE
    /\ contract = NoContract
    /\ pc = "unpacker"
    /\ \E types \in BytesLists : locals = [NoLocals EXCEPT !.typeParameters = types]
    /\ compiled = << >>
    /\ evm = EvmIdle

NextPad ==
    \/ AppendCalldataUnpacker
    \/ EvmStartPadding
    \/ EvmRun

\* The unpacker of dynamic parameters, run on lengths of the whole word.
SpecPad == InitPad /\ [][NextPad]_vars

\* ------------------------------------------------------------------ C1
\* The machine is about to execute the JUMP that ends the epilogue.
AtFinalJump ==
    /\ evm.status = "running"
    /\ evm.pc \in 1..Len(m_context.asm)
    /\ m_context.asm[evm.pc] = Op("JUMP")

\* The return values in their order, the return address on top.
ReturnStack(f) ==
    [i \in 1..SumSeq(f.returnParameters) |-> ReturnValue(i)] \o << ReturnAddress >>

\* C1: for every numbers of argument, return value and local variable slots,
\* the epilogue loop ends, and the POPs and SWAPs it emitted take the stack
\* [return address, arguments, return values, locals] to exactly
\* [return values, return address] when the final JUMP is executed.
C1_EpilogueLeavesReturnValues ==
    /\ [](AtFinalJump => evm.stack = ReturnStack(m_currentFunction))
    /\ <>(evm.status = "jumped" /\ evm.stack = Front(ReturnStack(m_currentFunction)))

\* The function with arguments [a, b, c], locals [x, y] and returns [r0, r1]
\* is at its final JUMP with [r0, r1, return address] on the stack.
C1_Witness ==
    /\ AtFinalJump
    /\ m_currentFunction.parameters = << 1, 1, 1 >>
    /\ m_currentFunction.localVariables = << 1, 1 >>
    /\ m_currentFunction.returnParameters = << 1, 1 >>
    /\ evm.stack = << ReturnValue(1), ReturnValue(2), ReturnAddress >>

\* ------------------------------------------------------------------ C2
\* The modifiers being expanded around the visitor on top: one frame each.
ExpandedModifiers ==
    Cardinality({ i \in 1..Len(frames) : frames[i].pc = "modifier_body_done" })

\* The slots of the parameters and local variables of the first k modifiers.
RECURSIVE ModifierSlots(_, _)
ModifierSlots(f, k) ==
    IF k = 0 THEN 0
    ELSE SumSeq(f.modifiers[k].parameters) + SumSeq(f.modifiers[k].localVariables)
             + ModifierSlots(f, k - 1)

\* What the ExpressionCompiler and CompilerUtils emit for the returned value.
ReturnedValueItems ==
    IF Top.node.hasExpression
    THEN << Item("EXPR", m_currentFunction.returnParameters[1]),
            Item("MOVE", m_currentFunction.returnParameters[1]) >>
    ELSE << >>

\* C2: a return statement emits, before the jump to the function's return
\* tag, as many POPs as the modifiers being expanded around it have parameter
\* and local variable slots (none in a function without modifiers).
C2_ReturnPopsModifierSlots ==
    [][Visiting("Return") =>
          m_context'.asm = m_context.asm \o ReturnedValueItems
              \o Repeat(Op("POP"), ModifierSlots(m_currentFunction, ExpandedModifiers))
              \o << PushTag(m_returnTag), Op("JUMP") >>]_vars

\* A return in the body of a function with two modifiers of one parameter and
\* one local each has just emitted exactly 4 POPs and the jump.
C2_Witness ==
    /\ m_currentFunction # NoStmt
    /\ Len(m_currentFunction.modifiers) = 2
    /\ \A i \in 1..2 : /\ m_currentFunction.modifiers[i].parameters = << 1 >>
                       /\ m_currentFunction.modifiers[i].localVariables = << 1 >>
    /\ ExpandedModifiers = 2
    /\ m_stackCleanupForReturn = 4
    /\ Len(m_context.asm) > 6
    /\ SubSeq(m_context.asm, Len(m_context.asm) - 5, Len(m_context.asm))
           = Repeat(Op("POP"), 4) \o << PushTag(m_returnTag), Op("JUMP") >>
    /\ m_context.asm[Len(m_context.asm) - 6] # Op("POP")

\* ------------------------------------------------------------------ C3
\* The visitors that hold a StackHeightChecker, when all that is left of them
\* is items of no net effect and check().
CheckerExits == { "if_true_done", "while_body_done", "for_loop_done", "placeholder_done" }

\* C3: no StackHeightChecker assertion fires, and when the statements inside
\* an if, a loop or a placeholder have been visited (return statements in
\* modifier-wrapped bodies among them) the virtual stack height is the one
\* recorded on entry.
C3_StackHeightKept ==
    /\ ~failed
    /\ (frames # << >> /\ Top.pc \in CheckerExits) => m_context.deposit = Top.height

\* An if statement whose true branch is a return, inside a modifier with
\* slots to clean up, is about to make its check.
C3_Witness ==
    /\ At("if_true_done")
    /\ Top.node.trueStatement.kind = "Return"
    /\ m_stackCleanupForReturn > 0
    /\ m_context.asm[Len(m_context.asm)] = Op("JUMP")
    /\ m_context.deposit = Top.height

\* ------------------------------------------------------------------ C4
\* The runtime program is being run, or has been.
Called == evm.code = "runtime" /\ evm.status # "idle"

Halted == evm.status \notin {"idle", "running"}

\* The entry label the runtime context has for declaration d, and all of them.
RuntimeEntryLabel(d) == m_runtimeContext.functionEntryLabels[d]

RuntimeEntryLabels ==
    { RuntimeEntryLabel(d) : d \in DOMAIN m_runtimeContext.functionEntryLabels }

\* The tag the comparison with selector s jumps to.
UnpackerEntryTag(s) ==
    LET asm == m_runtimeContext.asm
        at == CHOOSE k \in 1..(Len(asm) - 3) :
                  /\ asm[k] = Push(s) /\ asm[k + 1] = Op("EQ")
                  /\ asm[k + 2].op = "PUSHTAG" /\ asm[k + 3] = Op("JUMPI")
    IN  asm[at + 2].arg

\* What a call with the selector in evm.data has passed so far: for the
\* selector of f, the unpacker-entry tag of f, then the entry label of f and
\* the entry label of no other declaration; for another selector no unpacker
\* block, but the fallback function if there is one.  The call never ends
\* before it is there, and ends at the STOP if there is nothing to reach.
DispatchedSoFar ==
    LET s == evm.data.selector
        tags == evm.tags
    IN  IF s \in DOMAIN contract.interfaceFunctions
        THEN LET f == contract.interfaceFunctions[s]
             IN  /\ Len(tags) >= 1 => tags[1] = UnpackerEntryTag(s)
                 /\ Len(tags) >= 2 => tags[2] = RuntimeEntryLabel(f)
                 /\ \A k \in 1..Len(tags) :
                        tags[k] \in RuntimeEntryLabels => tags[k] = RuntimeEntryLabel(f)
                 /\ Halted => Len(tags) >= 2
        ELSE IF contract.fallbackFunction # ""
        THEN /\ Len(tags) >= 1 => tags[1] = RuntimeEntryLabel(contract.fallbackFunction)
             /\ Halted => Len(tags) >= 1
        ELSE /\ tags = << >>
             /\ Halted => evm.status = "stopped"

\* The call has not reached a function yet.
Dispatching ==
    /\ Called /\ evm.status = "running"
    /\ \A k \in 1..Len(evm.tags) : evm.tags[k] \notin RuntimeEntryLabels

\* C4: a call of the runtime program with the selector of interface function
\* f passes the unpacker-entry tag of f and then the entry label of f, and the
\* entry label of no other function; a call with any other selector takes none
\* of the jumps and comes to the code of the fallback function, or to the STOP
\* if there is none.  Until it is there the call only moves forward in the
\* program, and it does not end before.
C4_SelectorDispatch ==
    /\ [](Called => DispatchedSoFar)
    /\ [][Dispatching /\ evm'.status = "running" => evm'.pc > evm.pc]_vars

C4_Witness ==
    /\ Called /\ Halted
    /\ evm.data.selector = 2
    /\ DOMAIN contract.interfaceFunctions = {1, 2}
    /\ Len(evm.tags) >= 2
    /\ evm.tags[2] = RuntimeEntryLabel(contract.interfaceFunctions[2])

\* ------------------------------------------------------------------ C5
\* packIntoContractCreator has emitted the constructor calls.
Packed == pc \in {"creation", "returned"} /\ ~failed

Bases == contract.linearizedBaseContracts

\* Where the creation program initializes a state variable of contract k.
InitializationsOf(k) ==
    { p \in 1..Len(m_context.asm) :
        /\ m_context.asm[p].op = "INITVAR"
        /\ \E v \in 1..Len(Bases[k].stateVariables) :
               Bases[k].stateVariables[v].id = m_context.asm[p].id }

\* Where the creation program jumps to the constructor of contract k.
ConstructorCallsOf(k) ==
    { p \in 1..(Len(m_context.asm) - 1) :
        /\ Bases[k].constructor # ""
        /\ Bases[k].constructor \in DOMAIN m_context.functionEntryLabels
        /\ m_context.asm[p] = PushTag(m_context.functionEntryLabels[Bases[k].constructor])
        /\ m_context.asm[p + 1] = Op("JUMP") }

\* C5: in the creation program every contract of the linearized list has its
\* state variables initialized once and, if it has a constructor, its
\* constructor called once, the initialization before the call; and all of
\* this comes for a more base contract before any of it for a more derived
\* one.
C5_BaseToDerivedOrder ==
    Packed =>
        \A k \in 1..Len(Bases) :
            /\ Cardinality(InitializationsOf(k)) = 1
            /\ Cardinality(ConstructorCallsOf(k)) = IF Bases[k].constructor = "" THEN 0 ELSE 1
            /\ \A p \in InitializationsOf(k), q \in ConstructorCallsOf(k) : p < q
            /\ \A j \in 1..(k - 1) :
                   \A p \in InitializationsOf(k) \cup ConstructorCallsOf(k),
                      q \in InitializationsOf(j) \cup ConstructorCallsOf(j) : p < q

C5_Witness ==
    /\ pc = "returned" /\ ~failed
    /\ Len(Bases) = 3
    /\ \A k \in 1..3 : ConstructorCallsOf(k) # {}

\* ------------------------------------------------------------------ C6
\* The ids of the expressions compiled right before position p.
RECURSIVE ExpressionsBefore(_)
ExpressionsBefore(p) ==
    IF p > 1 /\ m_context.asm[p - 1].op = "EXPR"
    THEN ExpressionsBefore(p - 1) \o << m_context.asm[p - 1].id >>
    ELSE << >>

\* The specifiers that name base b, as << contract, specifier >> positions.
SpecifiersNaming(b) ==
    { s \in (1..Len(Bases)) \X (1..MaxBases) :
        /\ s[2] <= Len(Bases[s[1]].baseContracts)
        /\ Bases[s[1]].baseContracts[s[2]].base = b }

\* The one met first: in the most derived contract, and first written there.
FirstSpecifierNaming(b) ==
    CHOOSE s \in SpecifiersNaming(b) :
        \A t \in SpecifiersNaming(b) : s[1] < t[1] \/ (s[1] = t[1] /\ s[2] <= t[2])

\* C6: the arguments compiled for the call of a base constructor are those of
\* the first specifier that names the base, the linearized list read from the
\* most derived contract on and the specifiers of a contract as written.
C6_NearestDerivedArguments ==
    Packed =>
        \A k \in 2..Len(Bases) : \A p \in ConstructorCallsOf(k) :
            LET s == FirstSpecifierNaming(Bases[k].id)
            IN  ExpressionsBefore(p) = Bases[s[1]].baseContracts[s[2]].arguments

C6_Witness ==
    /\ pc = "returned" /\ ~failed
    /\ \E k \in 2..Len(Bases) :
           /\ ConstructorCallsOf(k) # {}
           /\ Cardinality(SpecifiersNaming(Bases[k].id)) = 2
           /\ \A s \in SpecifiersNaming(Bases[k].id) :
                  Bases[s[1]].baseContracts[s[2]].arguments # << >>
           /\ \A p \in ConstructorCallsOf(k) : ExpressionsBefore(p) # << >>

\* ------------------------------------------------------------------ C7
\* compileContract is in one of its two loops over the functions without code.
Draining == pc \in {"runtime", "creation"} /\ ~failed

\* The declarations whose visit by the loop has not begun: those without code
\* that are not among the ones the current round has taken already.
NotBegun ==
    DOMAIN contract.declarations
        \ (m_context.functionsWithCode \cup (locals.functions \ locals.pending))

\* What the loop has left to do: two for every visit that has not begun, one
\* for a round that is over but not replaced.
DrainRank ==
    2 * Cardinality(NotBegun)
        + (IF locals.pending = {} /\ locals.functions # {} THEN 1 ELSE 0)

\* A declaration has been asked for while the round was on: it has a label
\* and no code, and the round does not have it.
AskedForMeanwhile == getFunctionsWithoutCode(m_context) \ locals.functions

\* C7: both loops of compileContract end and leave no declaration with a
\* label and without code, in either context.  They end because every step of
\* a loop (a visit begun, a round replaced) lowers a rank that is never
\* negative, the visitors in between do not raise it, and a step is always
\* possible until compileContract returns.  A round visits only declarations
\* of the set it started with; one asked for meanwhile is visited in a later
\* round, for the loop is only left when no function without code remains.
C7_WorklistDrains ==
    /\ [](pc = "returned" =>
            /\ getFunctionsWithoutCode(m_context) = {}
            /\ getFunctionsWithoutCode(m_runtimeContext) = {})
    /\ [](Draining => ENABLED NextCompile)
    /\ [][Draining /\ pc' = pc =>
            /\ IF locals' # locals THEN DrainRank' < DrainRank ELSE DrainRank' <= DrainRank
            /\ locals'.pending # locals.pending /\ frames' # << >> =>
                   /\ frames'[1].node.name \in locals.functions
                   /\ frames'[1].node.name \notin m_context.functionsWithCode]_vars
    /\ [][Draining /\ pc' # pc => getFunctionsWithoutCode(m_context) = {}]_vars

C7_Witness ==
    /\ Draining
    /\ frames = << >>
    /\ AskedForMeanwhile # {}
    /\ locals.pending # {}

\* ------------------------------------------------------------------ C8
\* The machine has just run lines 225-229 for a dynamic parameter: the stack
\* ends with the offset, the length and the next offset.
AfterDynamicParameter ==
    /\ evm.status = "running" /\ evm.code = "context"
    /\ evm.pc > 2 /\ evm.pc <= Len(m_context.asm)
    /\ m_context.asm[evm.pc - 2] = dupInstruction(3)
    /\ m_context.asm[evm.pc - 1] = Op("ADD")

\* The machine is at the POP of line 239.
BeforeFinalPop ==
    /\ evm.status = "running" /\ evm.code = "context"
    /\ evm.pc = Len(m_context.asm)
    /\ m_context.asm[evm.pc] = Op("POP")

StackFromTop(k) == evm.stack[Len(evm.stack) - k + 1]

\* len rounded up to a multiple of 32.
RoundedUp(len) == ((len + 31) \div 32) * 32

\* The lengths in the call data, by dynamic parameter.
LengthsCalledWith ==
    [k \in 1..DynamicParameterCount(locals.typeParameters) |->
        evm.data.words[dataStartOffset + 32 * (k - 1)]]

\* The bytes the arguments take in the call data: 32 for a value, and for a
\* dynamic parameter the 32 of its length and its bytes rounded up.
EncodedArgumentsSize ==
    32 * Len(locals.typeParameters)
        + SumSeq([k \in 1..Len(LengthsCalledWith) |-> RoundedUp(LengthsCalledWith[k])])

\* No length is so large that rounding it up leaves the word.
LengthsFit == \A k \in 1..Len(LengthsCalledWith) : LengthsCalledWith[k] + 31 < Word

\* C8 (as stated): the cursor moves on by 32 + ceil(len/32)*32 for a dynamic
\* parameter of length len, and before the final POP it is the number of
\* bytes of the encoded arguments.
C8_AsStated ==
    /\ AfterDynamicParameter =>
           StackFromTop(1) = StackFromTop(3) + 32 + RoundedUp(StackFromTop(2))
    /\ BeforeFinalPop => StackFromTop(1) = EncodedArgumentsSize

\* C8 (amended): the cursor moves on by ceil(len/32)*32 for a dynamic
\* parameter of length len (the 32 bytes of every length are counted before
\* the first dynamic parameter, in the offset the cursor starts from), and
\* before the final POP it is dataStartOffset plus the number of bytes of the
\* encoded arguments, the end of the call data; all of it modulo the word
\* size, for lengths that rounding up keeps within a word.
C8_CursorAdvance ==
    /\ AfterDynamicParameter /\ StackFromTop(2) + 31 < Word =>
           StackFromTop(1) = (StackFromTop(3) + RoundedUp(StackFromTop(2))) % Word
    /\ BeforeFinalPop /\ LengthsFit =>
           StackFromTop(1) = (dataStartOffset + EncodedArgumentsSize) % Word

C8_Witness ==
    /\ BeforeFinalPop /\ LengthsFit
    /\ locals.typeParameters = ValueBytesValueBytes
    /\ LengthsCalledWith = << 33, 1 >>
    /\ StackFromTop(1) = dataStartOffset + 32 + (32 + 64) + 32 + (32 + 32)

\* ------------------------------------------------------------------ C9
\* C9 (as stated): the calls of compileContract on one contract all leave the
\* same creation program and the same runtime program.
C9_RunsLeaveSamePrograms ==
    \A a, b \in 1..Len(compiled) :
        /\ compiled[a].creation = compiled[b].creation
        /\ compiled[a].runtime = compiled[b].runtime

\* ----------------------------------------------------------------- C10
\* The loop visitors in progress, outermost first.
LoopFrames ==
    SelectSeq(frames, LAMBDA fr : fr.pc \in { "while_body_done", "for_init_done",
                                              "for_body_done", "for_loop_done" })

\* The tag stacks hold the tags of exactly the loops in progress.
TagStacksFollowLoops ==
    /\ m_continueTags = [i \in 1..Len(LoopFrames) |-> LoopFrames[i].t1]
    /\ m_breakTags = [i \in 1..Len(LoopFrames) |-> LoopFrames[i].t2]

\* What a break and a continue are to emit: a jump to the innermost loop's end
\* tag and start tag, nothing outside a loop.
BreakJump ==
    IF LoopFrames = << >> THEN << >>
    ELSE << PushTag(Last(LoopFrames).t2), Op("JUMP") >>

ContinueJump ==
    IF LoopFrames = << >> THEN << >>
    ELSE << PushTag(Last(LoopFrames).t1), Op("JUMP") >>

\* The start tag of the innermost loop is placed, once, and what follows it
\* is the loop's exit test: a continue goes back to the condition, and a
\* for loop's step is not yet emitted.
ContinueTargetPlaced ==
    LoopFrames # << >> =>
        LET fr == Last(LoopFrames)
            asm == m_context.asm
            p == TagPosition(asm, fr.t1)
            tested == fr.node.kind = "WhileStatement" \/ fr.node.hasCondition
        IN  /\ p # 0
            /\ Cardinality({ i \in 1..Len(asm) : asm[i] = Tag(fr.t1) }) = 1
            /\ tested => SubSeq(asm, p + 1, p + 4)
                            = << Item("EXPR", 1), Op("ISZERO"), PushTag(fr.t2), Op("JUMPI") >>
            /\ fr.pc = "for_body_done"

\* C10: a break jumps to the end tag and a continue to the start tag of the
\* innermost loop in progress, and neither emits anything outside a loop; the
\* start tag of a for loop stands before its condition (so the step is not on
\* the continue path); the tag stacks are restored when a loop visitor returns.
C10_BreakContinueInnermostLoop ==
    [][/\ TagStacksFollowLoops'
       /\ Visiting("Break") =>
              m_context'.asm = m_context.asm \o BreakJump
       /\ Visiting("Continue") =>
              m_context'.asm = m_context.asm \o ContinueJump
       /\ (Visiting("Continue") /\ LoopFrames # << >>
               /\ Last(LoopFrames).node.kind = "ForStatement") => ContinueTargetPlaced
      ]_vars

\* A break has just been visited in a loop nested in a loop: the jump emitted
\* goes to the inner loop's end tag.
C10_Witness ==
    /\ Len(LoopFrames) = 2
    /\ Last(LoopFrames).pc \in { "while_body_done", "for_body_done" }
    /\ Top = Last(LoopFrames)
    /\ Top.node.body = Break
    /\ Len(m_context.asm) > 2
    /\ SubSeq(m_context.asm, Len(m_context.asm) - 1, Len(m_context.asm))
           = << PushTag(Top.t2), Op("JUMP") >>
    /\ m_breakTags = << LoopFrames[1].t2, Top.t2 >>

\* ----------------------------------------------------------------- C11
\* Where the creation program names its runtime subroutine: the item of line
\* 113 that the call of compileContract just returned has emitted.
RuntimeCopy ==
    LET P == { p \in 1..Len(m_context.asm) : m_context.asm[p].op = "PUSHSUB" }
    IN  IF P = {} THEN 0 ELSE CHOOSE p \in P : \A q \in P : q <= p

\* The block of lines 112-114 begins two items before it and its RETURN is
\* four items after it.
CopyBlockBegin == RuntimeCopy - 2

RuntimeReturn == RuntimeCopy + 4

CopyBlockInPlace ==
    /\ RuntimeCopy > 2
    /\ RuntimeReturn <= Len(m_context.asm)
    /\ SubSeq(m_context.asm, CopyBlockBegin, RuntimeReturn)
         = << Item("PUSHSUBSIZE", m_context.asm[RuntimeCopy].arg), dupInstruction(1),
              Item("PUSHSUB", m_context.asm[RuntimeCopy].arg), Push(0), Op("CODECOPY"),
              Push(0), Op("RETURN") >>

\* Where the creation program initializes a state variable or jumps to a
\* constructor.
InitializationsAndCalls ==
    UNION { InitializationsOf(k) \cup ConstructorCallsOf(k) : k \in 1..Len(Bases) }

\* Where a function body begins in the creation program.
FunctionBodies ==
    { p \in 1..Len(m_context.asm) :
        /\ m_context.asm[p].op = "TAG"
        /\ \E n \in DOMAIN m_context.functionEntryLabels :
               m_context.functionEntryLabels[n] = m_context.asm[p].arg }

\* The item before a function body never hands control to the next item.
NoWayIntoBodyFromAbove ==
    \A p \in FunctionBodies : p > 1 /\ m_context.asm[p - 1].op \in {"JUMP", "RETURN", "STOP"}

\* Every base constructor is called with as many arguments as it has
\* parameters, so that its epilogue finds its return label.
ConstructorCallsReturn ==
    \A k \in 2..Len(Bases) :
        Bases[k].constructor # "" =>
            /\ SpecifiersNaming(Bases[k].id) # {}
            /\ LET s == FirstSpecifierNaming(Bases[k].id)
               IN  Len(Bases[s[1]].baseContracts[s[2]].arguments)
                       = Len(contract.declarations[Bases[k].constructor].parameters)

\* The machine runs, or has run, the creation program.
CreationRun == evm.code = "creation" /\ evm.status # "idle"

\* The order of the creation program: initializations and constructor
\* calls, the copy block, the function bodies.
CreationProgramInOrder ==
    /\ CopyBlockInPlace
    /\ \A p \in InitializationsAndCalls : p < CopyBlockBegin
    /\ \A p \in FunctionBodies : p > RuntimeReturn
    /\ NoWayIntoBodyFromAbove

\* The run of the creation program stays inside the program and halts
\* only at the RETURN of the copy block.
CreationRunReturnsRuntime ==
    CreationRun =>
        IF evm.status = "running" THEN evm.pc \in 1..Len(m_context.asm)
        ELSE evm.status = "returned" /\ evm.pc = RuntimeReturn

\* C11: in the creation program every state variable initialization and
\* constructor call comes before the block that copies the runtime program
\* to memory offset 0 and returns it, every function body comes after the
\* RETURN of that block, and the run of the creation program, the
\* constructor calls returning to their return labels, halts at that RETURN
\* and nowhere else.
C11_CreationReturnsRuntime ==
    pc = "returned" /\ ~failed =>
        /\ CreationProgramInOrder
        /\ ConstructorCallsReturn => CreationRunReturnsRuntime

\* The same for the first call of compileContract on a Compiler object.
C11_FirstCall == Len(compiled) = 1 => C11_CreationReturnsRuntime

C11_FirstCallRuns ==
    /\ pc = "returned" /\ ~failed /\ Len(compiled) = 1
    /\ Len(Bases) = MaxBases
    /\ \A k \in 1..Len(Bases) : ConstructorCallsOf(k) # {}
    /\ ConstructorCallsReturn
    /\ evm.code = "creation" /\ evm.status = "returned"
    /\ Len(evm.tags) >= 2 * MaxBases

\* ----------------------------------------------------------------- C12
\* The machine has just run lines 225-227: the seven items that pad the
\* length.
AfterPaddedLength ==
    /\ evm.status = "running" /\ evm.code = "context"
    /\ evm.pc > Len(PaddedLength) /\ evm.pc <= Len(m_context.asm)
    /\ SubSeq(m_context.asm, evm.pc - Len(PaddedLength), evm.pc - 1) = PaddedLength

\* How many dynamic parameters the items before position p pad the length of.
PaddedBefore(p) ==
    Cardinality({ q \in 1..(p - Len(PaddedLength)) :
                    SubSeq(m_context.asm, q, q + Len(PaddedLength) - 1) = PaddedLength })

\* The offset on the stack when the k-th dynamic parameter is reached: the
\* constant of line 210, then moved on by every padded length.
RECURSIVE CursorBefore(_)
CursorBefore(k) ==
    IF k = 1 THEN dataStartOffset + 32 * DynamicParameterCount(locals.typeParameters)
    ELSE (CursorBefore(k - 1) + RoundedUp(LengthsCalledWith[k - 1])) % Word

\* m is the smallest multiple of 32 that is len or more.
SmallestMultipleFrom(m, len) == m % 32 = 0 /\ m >= len /\ m - len < 32

\* The stack ends with the offset and the length of the k-th dynamic
\* parameter and one more word.
StackIsOffsetLengthAnd(k) ==
    /\ Len(evm.stack) = 2 * k + 1
    /\ StackFromTop(3) = CursorBefore(k)
    /\ StackFromTop(2) = LengthsCalledWith[k]

\* C12 (as stated): for every length len of the machine word, the items
\* PUSH 32, DUP1, PUSH 31, DUP4, ADD, DIV, MUL leave the stack as
\* [offset, len, padded_length], padded_length the smallest multiple of 32
\* that is len or more, and DUP3, ADD put offset + padded_length in its place.
C12_AsStated ==
    /\ AfterPaddedLength =>
           /\ StackIsOffsetLengthAnd(PaddedBefore(evm.pc))
           /\ SmallestMultipleFrom(StackFromTop(1), StackFromTop(2))
    /\ AfterDynamicParameter =>
           /\ StackIsOffsetLengthAnd(PaddedBefore(evm.pc))
           /\ \E m \in 0..(Word - 1) :
                  /\ SmallestMultipleFrom(m, StackFromTop(2))
                  /\ StackFromTop(1) = (StackFromTop(3) + m) % Word

\* C12 (amended): the items PUSH 32, DUP1, PUSH 31, DUP4, ADD, DIV, MUL
\* leave the stack as [offset, len, padded_length]; padded_length is the
\* smallest multiple of 32 that is len or more for every len up to 2^w - 32,
\* and 0 for the 31 lengths above, where len + 31 leaves the word; DUP3, ADD
\* put offset + padded_length, modulo 2^w, in its place.
C12_PaddedLength ==
    /\ AfterPaddedLength =>
           /\ StackIsOffsetLengthAnd(PaddedBefore(evm.pc))
           /\ IF StackFromTop(2) <= Word - 32
              THEN SmallestMultipleFrom(StackFromTop(1), StackFromTop(2))
              ELSE StackFromTop(1) = 0
    /\ AfterDynamicParameter =>
           /\ StackIsOffsetLengthAnd(PaddedBefore(evm.pc))
           /\ StackFromTop(1)
                  = (StackFromTop(3)
                        + (IF StackFromTop(2) <= Word - 32 THEN RoundedUp(StackFromTop(2)) ELSE 0))
                    % Word

\* The second of two dynamic parameters, of length 65 after one of length
\* 33, has been padded to 96 and the cursor moved on from 132 to 228.
C12_Witness ==
    /\ AfterDynamicParameter
    /\ PaddedBefore(evm.pc) = 2
    /\ LengthsCalledWith = << 33, 65 >>
    /\ SubSeq(evm.stack, 3, 5) = << dataStartOffset + 64 + 64, 65, dataStartOffset + 64 + 64 + 96 >>

\* A length of the last 31 of the word has been padded to 0.
C12_WitnessWrapped ==
    /\ AfterPaddedLength
    /\ StackFromTop(2) = Word - 31
    /\ StackFromTop(1) = 0

====
